---------------------------- MODULE Spec2Model ----------------------------
(***************************************************************************)
(* The ReAct and Rigid contact/e-mail workflows of backend/agents and the  *)
(* entry point _execute_agent that runs one session through them.          *)
(*                                                                         *)
(* Python text is a sequence of one-character strings, so that lower(),    *)
(* split(), the `in` substring test and the f-strings are computed on      *)
(* characters.  An Optional value is <<>> (None) or <<v>>.  Node names,    *)
(* flags, statuses and log levels are enumerations and stay TLA+ strings.  *)
(***************************************************************************)
EXTENDS Integers, Sequences, FiniteSets, TLC

VARIABLES
  contacts,     \* rows of the Contact table, in Meta.ordering (by name)
  session,      \* the AgentSession row being executed
  state,        \* the graph state threaded through the nodes
  pc,           \* position of the run: idle, a graph node, END, ...
  supersteps,   \* super-steps the graph engine has executed in this run
  executed,     \* graph nodes invoked so far, in order
  llm_calls,    \* language-model invocations so far, by calling node
  result,       \* Optional: the dict returned by service.run()
  exc,          \* Optional: the exception propagating out of service.run()
  agent_steps,  \* AgentStep rows created for the session
  ws,           \* updates handed to _send_ws_update, in order
  parked,       \* a second, concurrent call of _execute_agent while the other one
                \* takes its steps: its session and locals; <<>> when there is none
  described,    \* requests GraphViewSet.retrieve has answered so far, each with
                \* its response and the super-step count of the run at that time
  comparison,   \* Optional: the locals of the call of _execute_comparison that
                \* runs the session: its two session rows and its AgentComparison row
  channel_up,   \* whether the channel layer accepts group_send; when it does
                \* not, _send_ws_update catches the exception and logs a warning
  a2a_service,  \* the singleton A2AService: its agents and its message_log
  a2a_call      \* Optional: the last call of a method of a2a_service, with its
                \* arguments and what it returned or raised

vars == <<contacts, session, state, pc, supersteps, executed, llm_calls, result,
          exc, agent_steps, ws, parked, described, comparison,
          channel_up, a2a_service, a2a_call>>

-----------------------------------------------------------------------------
(* Bounds of the model *)

MaxContacts == 3

-----------------------------------------------------------------------------
(* Optional values and Python truthiness *)

None == <<>>
Some(v) == <<v>>
IsNone(o) == o = <<>>
Val(o) == o[1]

\* dict.get(key): None when the key is absent
Get(d, key) == IF key \in DOMAIN d THEN Some(d[key]) ELSE None

\* truthiness of an Optional[str]: None and "" are falsy
Truthy(o) == o # <<>> /\ Val(o) # <<>>

-----------------------------------------------------------------------------
(* Text *)

Whitespace == {" ", "\t", "\n"}

lowerOf ==
  [c \in {"A","B","C","D","E","F","G","H","I","J","K","L","M","N","O","P","Q",
          "R","S","T","U","V","W","X","Y","Z"} |->
     CASE c = "A" -> "a" [] c = "B" -> "b" [] c = "C" -> "c" [] c = "D" -> "d"
       [] c = "E" -> "e" [] c = "F" -> "f" [] c = "G" -> "g" [] c = "H" -> "h"
       [] c = "I" -> "i" [] c = "J" -> "j" [] c = "K" -> "k" [] c = "L" -> "l"
       [] c = "M" -> "m" [] c = "N" -> "n" [] c = "O" -> "o" [] c = "P" -> "p"
       [] c = "Q" -> "q" [] c = "R" -> "r" [] c = "S" -> "s" [] c = "T" -> "t"
       [] c = "U" -> "u" [] c = "V" -> "v" [] c = "W" -> "w" [] c = "X" -> "x"
       [] c = "Y" -> "y" [] c = "Z" -> "z"]

\* str.lower()
Lower(s) == [i \in 1..Len(s) |-> IF s[i] \in DOMAIN lowerOf THEN lowerOf[s[i]] ELSE s[i]]

\* str.split() without a separator: the maximal runs of non-whitespace
RECURSIVE SplitFrom(_, _, _)
SplitFrom(s, i, cur) ==
  IF i > Len(s)
    THEN IF cur = <<>> THEN <<>> ELSE <<cur>>
    ELSE IF s[i] \in Whitespace
           THEN IF cur = <<>> THEN SplitFrom(s, i + 1, <<>>)
                              ELSE <<cur>> \o SplitFrom(s, i + 1, <<>>)
           ELSE SplitFrom(s, i + 1, Append(cur, s[i]))

Split(s) == SplitFrom(s, 1, <<>>)

\* needle in hay
Contains(hay, needle) ==
  \E i \in 0..(Len(hay) - Len(needle)) : SubSeq(hay, i + 1, i + Len(needle)) = needle

DigitChar(d) ==
  CASE d = 0 -> "0" [] d = 1 -> "1" [] d = 2 -> "2" [] d = 3 -> "3" [] d = 4 -> "4"
    [] d = 5 -> "5" [] d = 6 -> "6" [] d = 7 -> "7" [] d = 8 -> "8" [] d = 9 -> "9"

\* str(n) of a non-negative int
RECURSIVE IntToStr(_)
IntToStr(n) == IF n < 10 THEN <<DigitChar(n)>> ELSE IntToStr(n \div 10) \o <<DigitChar(n % 10)>>

\* repr of a list of str: ['a', 'b']
RECURSIVE ReprItems(_)
ReprItems(l) ==
  IF l = <<>> THEN <<>>
  ELSE <<"'">> \o Head(l) \o <<"'">> \o
       (IF Len(l) > 1 THEN <<",", " ">> ELSE <<>>) \o ReprItems(Tail(l))

ReprList(l) == <<"[">> \o ReprItems(l) \o <<"]">>

-----------------------------------------------------------------------------
(* Inputs *)

\* Rows the Contact table may hold, sorted by name as Contact.Meta.ordering
\* returns them; names are distinct, e-mails are unique.
ContactPool == <<
  [name |-> <<"E", "m", "a", "i", "l", " ", "s", "e", "n", "t", " ", "J", "o">>, email |-> <<"e", "s", "@", "x", ".", "i", "o">>, department |-> "Support", role |-> "", is_active |-> TRUE],
  [name |-> <<"J", "o", "h", "n", " ", "D", "o", "e">>, email |-> <<"j", "d", "@", "x", ".", "i", "o">>, department |-> "HR", role |-> "HR Manager", is_active |-> TRUE],
  [name |-> <<"J", "o", "h", "n", " ", "R", "o", "e">>, email |-> <<"j", "r", "@", "x", ".", "i", "o">>, department |-> "Finance", role |-> "", is_active |-> FALSE],
  [name |-> <<"J", "o", "h", "n", " ", "S", "m", "i", "t", "h">>, email |-> <<"j", "s", "@", "x", ".", "i", "o">>, department |-> "R&D", role |-> "Senior Engineer", is_active |-> TRUE],
  [name |-> <<"S", "m", "i", "t", "h", " ", "J", "o", "h", "n">>, email |-> <<"s", "j", "@", "x", ".", "i", "o">>, department |-> "Sales", role |-> "", is_active |-> TRUE] >>

\* the sub-sequence of ContactPool at the indices in I
RECURSIVE PoolRows(_, _)
PoolRows(I, i) ==
  IF i > Len(ContactPool) THEN <<>>
  ELSE (IF i \in I THEN <<ContactPool[i]>> ELSE <<>>) \o PoolRows(I, i + 1)

Directories ==
  {PoolRows(I, 1) : I \in {J \in SUBSET (1..Len(ContactPool)) : Cardinality(J) <= MaxContacts}}

\* target names a caller passes to run()
UserNames == {<<>>, <<" ">>, <<"J", "o", "h", "n">>, <<"J", "o">>, <<"J", "O", "H", "N", " ", "s", "m", "i", "t", "h">>, <<" ", "S", "m", "i", "t", "h", " ", " ", "J", "o", "h", "n">>, <<"D", "o", "e">>, <<"R", "o", "e">>}

\* user messages; Rigid falls back to the message when the target name is empty
Messages == {<<"M", "a", "i", "l", " ", "J", "o", "h", "n">>, <<"j", "o", "h", "n", " ", "d", "o", "e">>}

\* names the disambiguation model may return
LLMNames == {<<>>, <<"J", "o", "h", "n">>, <<"J", "o", "h", "n", " ", "S", "m", "i", "t", "h">>}

\* texts the drafting model may return
LLMTexts == {<<>>, <<"D", "e", "a", "r">>}

\* str(e) of a failed language-model call
LLMErrorText == <<"C", "o", "n", "n", "e", "c", "t", "i", "o", "n", " ", "e", "r", "r", "o", "r", ".">>

-----------------------------------------------------------------------------
(* The agent-to-agent service: a2a_service.py *)

\* the cards of _register_default_agents, in the order of registration, each with
\* its agent_id, capabilities and url
DefaultCards ==
  << [agent_id |-> "react-agent",
      capabilities |-> <<"contact_lookup", "email_send", "disambiguation">>,
      url |-> "/api/agents/sessions/run-sync/"],
     [agent_id |-> "rigid-agent",
      capabilities |-> <<"contact_lookup", "email_send">>,
      url |-> "/api/agents/sessions/run-sync/"],
     [agent_id |-> "multi-agent",
      capabilities |-> <<"research", "reasoning", "action", "synthesis">>,
      url |-> "/api/agents/sessions/run-sync/"],
     [agent_id |-> "recursive-qa",
      capabilities |-> <<"qa", "refinement", "confidence_scoring">>,
      url |-> "/api/agents/sessions/recursive-qa-sync/"],
     [agent_id |-> "document-agent",
      capabilities |-> <<"pdf_processing", "text_extraction", "indexing">>,
      url |-> "/api/documents/"] >>

\* the keys of the dict agents, in insertion order
AgentIds(svc) == [i \in 1..Len(svc.agents) |-> svc.agents[i].agent_id]

\* register_agent: self.agents[card.agent_id] = card; a key that is already
\* there keeps its place in the dict
register_agent(svc, card) ==
  IF \E i \in 1..Len(svc.agents) : svc.agents[i].agent_id = card.agent_id
    THEN [svc EXCEPT !.agents =
            [i \in 1..Len(svc.agents) |->
               IF svc.agents[i].agent_id = card.agent_id THEN card ELSE svc.agents[i]]]
    ELSE [svc EXCEPT !.agents = Append(svc.agents, card)]

RECURSIVE RegisterAll(_, _)
RegisterAll(svc, cards) ==
  IF cards = <<>> THEN svc
  ELSE RegisterAll(register_agent(svc, Head(cards)), Tail(cards))

\* A2AService(): empty agents and message_log, then _register_default_agents
A2AService == RegisterAll([agents |-> <<>>, message_log |-> <<>>], DefaultCards)

\* str(uuid.uuid4()) of a new message: an id no logged message has; messages
\* are created by send_message only, so they are numbered as they are logged
NewMessageId(svc) == Len(svc.message_log) + 1

\* A2AMessage(...).to_dict(), without timestamp and correlation_id
A2AMessage(id, sender, receiver, task_type, payload) ==
  [id |-> id, sender |-> sender, receiver |-> receiver, task_type |-> task_type,
   payload |-> payload, status |-> "pending"]

\* raise ValueError(f"Unknown agent: {receiver}")
UnknownAgent(receiver) == [raised |-> TRUE, message |-> "Unknown agent: " \o receiver]

\* faulty variant: the message is logged before the receiver is looked up
send_message_LogFirst(svc, sender, receiver, task_type, payload) ==
  LET msg == A2AMessage(NewMessageId(svc), sender, receiver, task_type, payload)
      logged == [svc EXCEPT !.message_log = Append(svc.message_log, msg)]
  IN  IF \A i \in 1..Len(svc.agents) : svc.agents[i].agent_id # receiver
        THEN [svc |-> logged, outcome |-> UnknownAgent(receiver)]
        ELSE [svc |-> logged, outcome |-> [raised |-> FALSE, value |-> msg]]

\* send_message: the service after the call and what the call returned or raised
send_message(svc, sender, receiver, task_type, payload) ==
  IF \A i \in 1..Len(svc.agents) : svc.agents[i].agent_id # receiver
    THEN [svc |-> svc, outcome |-> UnknownAgent(receiver)]
    ELSE LET msg == A2AMessage(NewMessageId(svc), sender, receiver, task_type, payload)
         IN  [svc |-> [svc EXCEPT !.message_log = Append(svc.message_log, msg)],
              outcome |-> [raised |-> FALSE, value |-> msg]]

\* seq[start:] of Python: a negative start counts from the end, and both kinds
\* of start are clipped to the sequence
SliceFrom(seq, start) ==
  LET n == Len(seq)
      first == IF start < 0
                 THEN (IF n + start > 0 THEN n + start ELSE 0)
                 ELSE (IF start < n THEN start ELSE n)
  IN  SubSeq(seq, first + 1, n)

\* get_message_log: self.message_log[-limit:]
get_message_log(svc, limit) == SliceFrom(svc.message_log, 0 - limit)

\* discover_agents: the ids of the cards it returns; capability is Optional, and
\* an empty capability is treated like None
discover_agents(svc, capability) ==
  IF capability # None /\ Val(capability) # ""
    THEN SelectSeq(AgentIds(svc),
           LAMBDA id : \E i \in 1..Len(svc.agents) :
              /\ svc.agents[i].agent_id = id
              /\ \E k \in 1..Len(svc.agents[i].capabilities) :
                   svc.agents[i].capabilities[k] = Val(capability))
    ELSE AgentIds(svc)

\* delegate_task: the first card, in the order of the dict, that has the capability
delegate_task(svc, task_type, payload) ==
  LET able == {i \in 1..Len(svc.agents) :
                 \E k \in 1..Len(svc.agents[i].capabilities) :
                    svc.agents[i].capabilities[k] = task_type}
  IN  IF able = {}
        THEN [svc |-> svc,
              outcome |-> [raised |-> FALSE,
                           value |-> [error |-> "No agent found for capability: "
                                                  \o task_type]]]
        ELSE LET card == svc.agents[CHOOSE i \in able : \A j \in able : i <= j]
                 sent == send_message(svc, "supervisor", card.agent_id, task_type, payload)
             IN  [svc |-> sent.svc,
                  outcome |-> [raised |-> FALSE,
                               value |-> [delegated_to |-> card.agent_id,
                                          message_id |-> sent.outcome.value.id,
                                          agent_url |-> card.url]]]

-----------------------------------------------------------------------------
(* What both services share *)

\* _get_contacts_db: the active rows as name -> {email, department, role},
\* kept as the sequence of entries in the dict's insertion order
_get_contacts_db(rows) == SelectSeq(rows, LAMBDA r : r.is_active)

Names(db) == [i \in 1..Len(db) |-> db[i].name]

\* faulty variant: the details are those of the first entry of the directory
ContactOf_First(db, name) ==
  LET r == db[1]
  IN  [name |-> r.name, email |-> r.email, department |-> r.department, role |-> r.role]

\* {"name": name, **contacts_db[name]}
ContactOf(db, name) ==
  LET r == db[CHOOSE i \in 1..Len(db) : db[i].name = name]
  IN  [name |-> name, email |-> r.email, department |-> r.department, role |-> r.role]

\* _log: appends one entry; the message is kept as the name of its template
_log(logs, level, message) == Append(logs, [level |-> level, message |-> message])

\* faulty variant: the update replaces the state, a key it lacks is reset to None
Merge_Replace(st, update) ==
  [k \in DOMAIN st |-> IF k \in DOMAIN update THEN update[k] ELSE None]

\* the engine's shallow merge of a node's partial update into the state
Merge(st, update) ==
  [k \in DOMAIN st |-> IF k \in DOMAIN update THEN update[k] ELSE st[k]]

\* a conditional edge: the label the router returns is looked up in the label table
\* of the edge; a label the table lacks is a configuration fault of the graph
RouteLabel(edges, label) ==
  IF label \in DOMAIN edges THEN edges[label] ELSE "config_error"

\* recursion limit of a compiled graph
RECURSION_LIMIT == 25

-----------------------------------------------------------------------------
(* ReactAgentService *)

MAX_RETRIES == 5

\* faulty variant: the check lets one more attempt through
RetriesExhausted_OffByOne(counter) == counter > MAX_RETRIES

\* the retry check that opens _react_node
RetriesExhausted(counter) == counter >= MAX_RETRIES

\* faulty variant: the query is matched as a substring of the name, as Rigid does
TokenMatch_Substring(user_name, name) == Contains(Lower(name), Lower(user_name))

\* faulty variant: the query's tokens must be the name's tokens, all of them and in order
TokenMatch_WholeName(user_name, name) == Split(Lower(user_name)) = Split(Lower(name))

\* the condition of the list comprehension that builds matches in _react_node
TokenMatch(user_name, name) ==
  LET search_terms == Split(Lower(user_name))
      parts == Split(Lower(name))
  IN  \A t \in 1..Len(search_terms) : \E p \in 1..Len(parts) : search_terms[t] = parts[p]

ReactMatches(db, user_name) == SelectSeq(Names(db), LAMBDA name : TokenMatch(user_name, name))

\* faulty variant: the lookup comes first, the limit stops only a name that did not resolve
_react_node_LookupFirst(st, rows) ==
  LET counter == st.counter IN
  IF RetriesExhausted(counter)
       /\ Len(ReactMatches(_get_contacts_db(rows),
                IF Truthy(st.user_name) THEN Val(st.user_name) ELSE <<>>)) # 1
    THEN [error |-> Some(<<"M", "A", "X", "_", "R", "E", "T", "R", "I", "E", "S", "_", "E", "X", "C", "E", "E", "D", "E", "D", " ", "a", "f", "t", "e", "r", " ">> \o IntToStr(counter) \o <<" ", "a", "t", "t", "e", "m", "p", "t", "s">>),
          flag |-> Some("END"),
          logs |-> _log(st.logs, "ERROR", "react_node: Max retries exceeded, giving up"),
          step_history |-> Append(st.step_history,
             [node |-> "react_node", action |-> "max_retries_exceeded", attempts |-> counter])]
    ELSE
      LET logs1 == _log(st.logs, "INFO", "react_node: Checking contacts")
          contacts_db == _get_contacts_db(rows)
          user_name == IF Truthy(st.user_name) THEN Val(st.user_name) ELSE <<>>
          matches == ReactMatches(contacts_db, user_name)
          history == Append(st.step_history,
             [node |-> "react_node", action |-> "contact_lookup",
              input |-> user_name, matches |-> matches])
      IN  IF Len(matches) = 1
            THEN [details |-> Some(ContactOf(contacts_db, matches[1])),
                  flag |-> Some("approve"),
                  logs |-> _log(logs1, "INFO", "react_node: Single match found"),
                  step_history |-> history]
          ELSE IF Len(matches) > 1
            THEN [error |-> Some(<<"A", "M", "B", "I", "G", "U", "O", "U", "S", ":", " ">> \o ReprList(matches)),
                  flag |-> Some("fail"),
                  logs |-> _log(logs1, "WARNING", "react_node: Ambiguity detected"),
                  step_history |-> history]
          ELSE [error |-> Some(<<"C", "O", "N", "T", "A", "C", "T", "_", "N", "O", "T", "_", "F", "O", "U", "N", "D">>),
                flag |-> Some("END"),
                logs |-> _log(logs1, "ERROR", "react_node: No contact found in DB"),
                step_history |-> history]

\* _react_node: the partial update it returns
_react_node(st, rows) ==
  LET counter == st.counter IN
  IF RetriesExhausted(counter)
    THEN [error |-> Some(<<"M", "A", "X", "_", "R", "E", "T", "R", "I", "E", "S", "_", "E", "X", "C", "E", "E", "D", "E", "D", " ", "a", "f", "t", "e", "r", " ">> \o IntToStr(counter) \o <<" ", "a", "t", "t", "e", "m", "p", "t", "s">>),
          flag |-> Some("END"),
          logs |-> _log(st.logs, "ERROR", "react_node: Max retries exceeded, giving up"),
          step_history |-> Append(st.step_history,
             [node |-> "react_node", action |-> "max_retries_exceeded", attempts |-> counter])]
    ELSE
      LET logs1 == _log(st.logs, "INFO", "react_node: Checking contacts")
          contacts_db == _get_contacts_db(rows)
          user_name == IF Truthy(st.user_name) THEN Val(st.user_name) ELSE <<>>
          matches == ReactMatches(contacts_db, user_name)
          history == Append(st.step_history,
             [node |-> "react_node", action |-> "contact_lookup",
              input |-> user_name, matches |-> matches])
      IN  IF Len(matches) = 1
            THEN [details |-> Some(ContactOf(contacts_db, matches[1])),
                  flag |-> Some("approve"),
                  logs |-> _log(logs1, "INFO", "react_node: Single match found"),
                  step_history |-> history]
          ELSE IF Len(matches) > 1
            THEN [error |-> Some(<<"A", "M", "B", "I", "G", "U", "O", "U", "S", ":", " ">> \o ReprList(matches)),
                  flag |-> Some("fail"),
                  logs |-> _log(logs1, "WARNING", "react_node: Ambiguity detected"),
                  step_history |-> history]
          ELSE [error |-> Some(<<"C", "O", "N", "T", "A", "C", "T", "_", "N", "O", "T", "_", "F", "O", "U", "N", "D">>),
                flag |-> Some("END"),
                logs |-> _log(logs1, "ERROR", "react_node: No contact found in DB"),
                step_history |-> history]

\* _contact_node up to the model call
ContactNodeLogs(st) == _log(st.logs, "WARNING", "contact_node: Resolving ambiguity")

\* faulty variant: the step record is put in front of the earlier records
_contact_node_Prepend(st, resolved_name) ==
  LET counter == st.counter + 1 IN
  [user_name |-> Some(resolved_name),
   counter |-> counter,
   logs |-> _log(ContactNodeLogs(st), "INFO", "contact_node: LLM resolved"),
   step_history |-> <<[node |-> "contact_node", action |-> "llm_disambiguation",
                       resolved_to |-> resolved_name, attempt |-> counter]>>
                    \o st.step_history]

\* faulty variant: the attempt is recorded but the counter is left as it was
_contact_node_NoCount(st, resolved_name) ==
  LET counter == st.counter + 1 IN
  [user_name |-> Some(resolved_name),
   counter |-> st.counter,
   logs |-> _log(ContactNodeLogs(st), "INFO", "contact_node: LLM resolved"),
   step_history |-> Append(st.step_history,
      [node |-> "contact_node", action |-> "llm_disambiguation",
       resolved_to |-> resolved_name, attempt |-> counter])]

\* _contact_node: the partial update it returns once the model answered resolved_name
_contact_node(st, resolved_name) ==
  LET counter == st.counter + 1 IN
  [user_name |-> Some(resolved_name),
   counter |-> counter,
   logs |-> _log(ContactNodeLogs(st), "INFO", "contact_node: LLM resolved"),
   step_history |-> Append(st.step_history,
      [node |-> "contact_node", action |-> "llm_disambiguation",
       resolved_to |-> resolved_name, attempt |-> counter])]

\* _email_node up to the model call
EmailNodeLogs(st) == _log(st.logs, "INFO", "email_node: Generating email")

\* _email_node: the partial update it returns once the model drafted email_content
_email_node(st, email_content) ==
  LET email_addr == Val(st.details).email IN
  [email_content |-> Some(email_content),
   logs |-> _log(EmailNodeLogs(st), "INFO", "email_node: Email generated successfully"),
   step_history |-> Append(st.step_history,
      [node |-> "email_node", action |-> "email_generated", to |-> email_addr])]

\* faulty variant: an ambiguous lookup ends the run instead of asking for disambiguation
ReactEdges_NoRetry == [approve |-> "email_node", fail |-> "END", END |-> "END"]

\* faulty variant: an ambiguous lookup is repeated without asking for disambiguation
ReactEdges_Repeat == [approve |-> "email_node", fail |-> "react_node", END |-> "END"]

\* the label table of the conditional edge out of react_node
ReactEdges == [approve |-> "email_node", fail |-> "contact_node", END |-> "END"]

\* the router lambda state: state["flag"], mapped through the label table
ReactRouter(st) ==
  IF st.flag # None /\ Val(st.flag) \in DOMAIN ReactEdges
    THEN ReactEdges[Val(st.flag)]
    ELSE "config_error"

\* faulty variant: the logs list is one object shared by the runs in progress
ReactInitialState_SharedLogs(message, user_name) ==
  [flag |-> None, counter |-> 0, user_name |-> Some(user_name), details |-> None,
   error |-> None, message |-> message, email_content |-> None,
   logs |-> IF parked # <<>> /\ parked.state # None THEN parked.state.logs ELSE <<>>,
   step_history |-> <<>>]

\* initial_state of ReactAgentService.run
ReactInitialState(message, user_name) ==
  [flag |-> None, counter |-> 0, user_name |-> Some(user_name), details |-> None,
   error |-> None, message |-> message, email_content |-> None,
   logs |-> <<>>, step_history |-> <<>>]

\* the dict ReactAgentService.run returns for the final state output
ReactResult(output) ==
  [status |-> IF Truthy(output.email_content) THEN "completed" ELSE "failed",
   result |-> [email_content |-> output.email_content,
               contact |-> output.details,
               error |-> output.error],
   logs |-> output.logs,
   step_history |-> output.step_history,
   retry_count |-> output.counter]

-----------------------------------------------------------------------------
(* The Multi-Phase workflow: multi_agent.py *)

\* default of run()'s max_iterations parameter
MULTI_MAX_ITERATIONS == 5

\* _a2a_message appends one agent-to-agent message to agent_messages
_a2a_message(agent_messages, sender, receiver, content) ==
  Append(agent_messages, [from |-> sender, to |-> receiver, content |-> content])

\* faulty variant: the supervisor goes to synthesize once iteration has reached
\* max_iterations
NextPhase_Capped(st) ==
  IF st.iteration >= st.max_iterations THEN "synthesize"
  ELSE IF ~Truthy(st.research_result) THEN "research"
  ELSE IF ~Truthy(st.reasoning_result) THEN "reasoning"
  ELSE IF ~Truthy(st.action_result) THEN "action"
  ELSE "synthesize"

\* the if/elif chain of _supervisor_node: `not state.get(...)` is true for None
\* and for the empty string
NextPhase(st) ==
  IF ~Truthy(st.research_result) THEN "research"
  ELSE IF ~Truthy(st.reasoning_result) THEN "reasoning"
  ELSE IF ~Truthy(st.action_result) THEN "action"
  ELSE "synthesize"

_supervisor_node(st) ==
  LET next_phase == NextPhase(st)
  IN  [phase |-> next_phase,
       logs |-> _log(st.logs, "INFO", "Supervisor: Evaluating workflow state"),
       step_history |-> Append(st.step_history,
                               [node |-> "supervisor", action |-> "route_to_" \o next_phase,
                                iteration |-> st.iteration]),
       agent_messages |-> _a2a_message(st.agent_messages, "supervisor", next_phase,
                                       "Activating " \o next_phase \o " phase")]

\* the log entry each model-calling node writes before its call
MultiLogs(st, node) ==
  _log(st.logs, "INFO",
       CASE node = "research" -> "Research Agent: Gathering information"
         [] node = "reasoning" -> "Reasoning Agent: Analyzing findings"
         [] node = "action" -> "Action Agent: Executing actions"
         [] node = "synthesize" -> "Synthesizer: Combining all agent outputs")

\* faulty variant: the research agent writes no step record
_research_node_Unrecorded(st, reply) ==
  [research_result |-> Some(reply),
   phase |-> "supervisor",
   logs |-> MultiLogs(st, "research"),
   step_history |-> st.step_history,
   agent_messages |-> _a2a_message(st.agent_messages, "research", "supervisor",
                                   "Research complete")]

\* reply is the content of the model's reply, which the code names result
_research_node(st, reply) ==
  [research_result |-> Some(reply),
   phase |-> "supervisor",
   logs |-> MultiLogs(st, "research"),
   step_history |-> Append(st.step_history,
                           [node |-> "research_agent", action |-> "research_complete"]),
   agent_messages |-> _a2a_message(st.agent_messages, "research", "supervisor",
                                   "Research complete")]

_reasoning_node(st, reply) ==
  [reasoning_result |-> Some(reply),
   phase |-> "supervisor",
   logs |-> MultiLogs(st, "reasoning"),
   step_history |-> Append(st.step_history,
                           [node |-> "reasoning_agent", action |-> "analysis_complete"]),
   agent_messages |-> _a2a_message(st.agent_messages, "reasoning", "supervisor",
                                   "Analysis complete")]

_action_node(st, reply) ==
  [action_result |-> Some(reply),
   phase |-> "supervisor",
   logs |-> MultiLogs(st, "action"),
   step_history |-> Append(st.step_history,
                           [node |-> "action_agent", action |-> "actions_executed"]),
   agent_messages |-> _a2a_message(st.agent_messages, "action", "supervisor",
                                   "Actions executed")]

_synthesize_node(st, reply) ==
  [final_answer |-> Some(reply),
   should_continue |-> FALSE,
   logs |-> MultiLogs(st, "synthesize"),
   step_history |-> Append(st.step_history,
                           [node |-> "synthesizer", action |-> "synthesis_complete"]),
   agent_messages |-> st.agent_messages]

\* faulty variant: the phases reasoning and action are exchanged
_route_from_supervisor_Swapped(st) ==
  IF st.phase = "research" THEN "research"
  ELSE IF st.phase = "reasoning" THEN "action"
  ELSE IF st.phase = "action" THEN "reasoning"
  ELSE "synthesize"

\* the router of the conditional edge out of supervisor
_route_from_supervisor(st) ==
  IF st.phase = "research" THEN "research"
  ELSE IF st.phase = "reasoning" THEN "reasoning"
  ELSE IF st.phase = "action" THEN "action"
  ELSE "synthesize"

\* the label table of that conditional edge
MultiRouterEdges ==
  [research |-> "research", reasoning |-> "reasoning", action |-> "action",
   synthesize |-> "synthesize"]

\* the fixed edges of build_graph
MultiEdges ==
  [research |-> "supervisor", reasoning |-> "supervisor", action |-> "supervisor",
   synthesize |-> "END"]

\* initial_state of MultiAgentOrchestrator.run
MultiInitialState(query, max_iterations) ==
  [query |-> query, phase |-> "", research_result |-> None, reasoning_result |-> None,
   action_result |-> None, final_answer |-> None, agent_messages |-> <<>>,
   logs |-> <<>>, step_history |-> <<>>, iteration |-> 0,
   max_iterations |-> max_iterations, should_continue |-> TRUE]

\* the dict MultiAgentOrchestrator.run returns for the final state output
MultiResult(output) ==
  [status |-> IF Truthy(output.final_answer) THEN "completed" ELSE "failed",
   result |-> [final_answer |-> output.final_answer,
               research |-> output.research_result,
               analysis |-> output.reasoning_result,
               actions |-> output.action_result],
   agent_messages |-> output.agent_messages,
   logs |-> output.logs,
   step_history |-> output.step_history]

-----------------------------------------------------------------------------
(* RigidAgentService *)

\* faulty variant: the operands of `in` are exchanged
SubstringMatch_Reversed(step_arg, name) == Contains(Lower(step_arg), Lower(name))

\* the condition of the list comprehension that builds matches in _contacts_node
SubstringMatch(step_arg, name) == Contains(Lower(name), Lower(step_arg))

RigidMatches(db, step_arg) == SelectSeq(Names(db), LAMBDA name : SubstringMatch(step_arg, name))

\* _plan_node: the partial update it returns
_plan_node(st) ==
  LET plan == << <<"contacts", st.user>>, <<"email_send", st.user>> >>
      logs1 == _log(st.logs, "INFO", "plan_node: Planning")
  IN  [steps |-> plan,
       logs |-> _log(logs1, "INFO", "plan_node: Plan"),
       step_history |-> Append(st.step_history,
          [node |-> "plan_node", action |-> "plan_created", steps |-> plan])]

\* _contacts_node: the partial update it returns
_contacts_node(st, rows) ==
  LET step_arg == st.steps[1][2]
      logs1 == _log(st.logs, "INFO", "contacts_node: Looking up")
      contacts_db == _get_contacts_db(rows)
      matches == RigidMatches(contacts_db, step_arg)
      res == IF Len(matches) = 1
               THEN [success |-> TRUE, contact |-> ContactOf(contacts_db, matches[1])]
             ELSE IF Len(matches) > 1
               THEN [success |-> FALSE, error |-> <<"A", "M", "B", "I", "G", "U", "O", "U", "S", ":", " ">> \o ReprList(matches)]
             ELSE [success |-> FALSE, error |-> <<"C", "O", "N", "T", "A", "C", "T", "_", "N", "O", "T", "_", "F", "O", "U", "N", "D">>]
      logs2 == IF Len(matches) = 1 THEN _log(logs1, "INFO", "contacts_node: Found")
               ELSE IF Len(matches) > 1 THEN _log(logs1, "WARNING", "contacts_node: Ambiguous")
               ELSE _log(logs1, "ERROR", "contacts_node: Not found")
  IN  [contact_result |-> res,
       logs |-> logs2,
       step_history |-> Append(st.step_history,
          [node |-> "contacts_node", action |-> "contact_lookup",
           input |-> step_arg, result |-> res])]

\* result.get("success") is truthy
Succeeded(res) == "success" \in DOMAIN res /\ res.success

\* _email_node of the Rigid service: the partial update it returns
RigidEmailNode(st) ==
  LET res == st.contact_result
      logs1 == _log(st.logs, "INFO", "email_node: Previous result")
  IN  IF ~Succeeded(res)
        THEN LET error_msg == <<"C", "a", "n", "n", "o", "t", " ", "s", "e", "n", "d", " ", "e", "m", "a", "i", "l", ":", " ">> \o
                              (IF "error" \in DOMAIN res THEN res.error ELSE <<"N", "o", "n", "e">>)
             IN  [email_result |-> Some(error_msg),
                  logs |-> _log(logs1, "ERROR", "email_node: Cannot send email"),
                  step_history |-> Append(st.step_history,
                     [node |-> "email_node", action |-> "email_failed", error |-> error_msg])]
        ELSE LET contact == res.contact
                 subject == <<"B", "u", "d", "g", "e", "t", " ", "M", "e", "e", "t", "i", "n", "g">>
                 email_result == <<"E", "m", "a", "i", "l", " ", "s", "e", "n", "t", " ", "t", "o", " ">> \o contact.name \o <<" ", "(">> \o contact.email
                                 \o <<")", " ", "|", " ", "s", "u", "b", "j", "e", "c", "t", "=", "'">> \o subject \o <<"'">>
             IN  [email_result |-> Some(email_result),
                  logs |-> _log(logs1, "INFO", "email_node: Email sent"),
                  step_history |-> Append(st.step_history,
                     [node |-> "email_node", action |-> "email_sent",
                      to |-> contact.email, subject |-> subject])]

\* faulty variant: a failed lookup ends the run instead of going on to email
RigidEdges_SkipEmail == [planner |-> "contacts", contacts |-> "END", email |-> "END"]

\* the fixed edges planner -> contacts -> email -> END
RigidEdges == [planner |-> "contacts", contacts |-> "email", email |-> "END"]

\* initial_state of RigidAgentService.run
RigidInitialState(message, user_name) ==
  [user |-> IF user_name # <<>> THEN user_name ELSE message,
   steps |-> <<>>, contact |-> None, contact_result |-> <<>>, email_result |-> None,
   logs |-> <<>>, step_history |-> <<>>]

\* the dict RigidAgentService.run returns for the final state output
RigidResult(output) ==
  LET email_result == output.email_result
      is_success == Truthy(email_result) /\ Contains(Val(email_result), <<"E", "m", "a", "i", "l", " ", "s", "e", "n", "t">>)
  IN  [status |-> IF is_success THEN "completed" ELSE "failed",
       result |-> [email_result |-> email_result,
                   contact |-> Get(output.contact_result, "contact"),
                   error |-> IF is_success THEN None ELSE email_result],
       logs |-> output.logs,
       step_history |-> output.step_history,
       retry_count |-> 0]

-----------------------------------------------------------------------------
(* The run of one session: _execute_agent around graph.invoke *)

TypeOK ==
  /\ pc \in {"idle", "react_node", "contact_node", "email_node", "planner", "contacts",
             "email", "supervisor", "research", "reasoning", "action", "synthesize",
             "answer", "evaluate", "refine",
             "END", "raised", "returned", "done"}
  /\ supersteps \in 0..RECURSION_LIMIT
  /\ session.status \in {"pending", "running", "completed", "failed", "cancelled"}

\* a session row as AgentSession.objects.create leaves it
NewSessions(agent_types, user_names) ==
  [agent_type : agent_types,
   status : {"pending"},
   user_message : Messages,
   user_name_target : user_names,
   final_result : {None},
   error_message : {<<>>},
   retry_count : {0},
   execution_time_ms : {None},
   graph_definition : {None}]

\* the Multi-Phase and Recursive-Refine workflows read neither the directory nor the
\* target name, so their sessions start from one directory and the default target name
Init ==
  /\ \/ /\ contacts \in Directories
        /\ session \in NewSessions({"react", "rigid"}, UserNames)
     \/ /\ contacts = <<>>
        /\ session \in NewSessions({"multi", "recursive"}, {<<>>})
  /\ state = None
  /\ pc = "idle"
  /\ supersteps = 0
  /\ executed = <<>>
  /\ llm_calls = <<>>
  /\ result = None
  /\ exc = None
  /\ agent_steps = <<>>
  /\ ws = <<>>
  /\ parked = <<>>
  /\ described = <<>>
  /\ comparison = None
  /\ channel_up = TRUE
  /\ a2a_service = A2AService
  /\ a2a_call = None

\* _send_ws_update: data is handed to group_send of the channel layer; when that
\* raises, the exception is caught and logged and the caller goes on all the same
_send_ws_update(updates, data) == Append(updates, data)

\* f"{session.agent_type}": the identifier spelled out as text
AgentTypeText(agent_type) ==
  CASE agent_type = "react" -> <<"r", "e", "a", "c", "t">>
    [] agent_type = "rigid" -> <<"r", "i", "g", "i", "d">>
    [] agent_type = "multi" -> <<"m", "u", "l", "t", "i">>
    [] agent_type = "recursive" -> <<"r", "e", "c", "u", "r", "s", "i", "v", "e">>

\* the services _execute_agent has a branch for
Dispatched == {"react", "rigid", "multi"}

\* _execute_agent up to graph.invoke: the session is marked running, the update is
\* sent, the service builds its initial state and the graph is entered
ExecuteAgentBegin ==
  /\ pc = "idle"
  /\ session' = [session EXCEPT !.status = "running"]
  /\ ws' = _send_ws_update(ws, [status |-> "running", agent_type |-> session.agent_type])
  /\ CASE session.agent_type = "react" ->
            /\ state' = ReactInitialState(session.user_message, session.user_name_target)
            /\ pc' = "react_node"
            /\ UNCHANGED exc
       [] session.agent_type = "rigid" ->
            /\ state' = RigidInitialState(session.user_message, session.user_name_target)
            /\ pc' = "planner"
            /\ UNCHANGED exc
       [] session.agent_type = "multi" ->
            /\ state' = MultiInitialState(session.user_message, MULTI_MAX_ITERATIONS)
            /\ pc' = "supervisor"
            /\ UNCHANGED exc
       [] OTHER ->
            /\ exc' = Some(<<"U", "n", "s", "u", "p", "p", "o", "r", "t", "e", "d", " ", "a", "g", "e", "n", "t", " ", "t", "y", "p", "e", ":", " ">> \o AgentTypeText(session.agent_type))
            /\ pc' = "raised"
            /\ UNCHANGED state
  /\ UNCHANGED <<a2a_service, a2a_call, channel_up, comparison, described, parked, contacts, supersteps, executed, llm_calls, result, agent_steps>>

\* the engine stops a run that needs more super-steps than the recursion limit
GraphRecursionError ==
  /\ exc' = Some(<<"R", "e", "c", "u", "r", "s", "i", "o", "n", " ", "l", "i", "m", "i", "t", " ", "o", "f", " ", "2", "5", " ", "r", "e", "a", "c", "h", "e", "d">>)
  /\ pc' = "raised"
  /\ UNCHANGED <<state, supersteps, executed, llm_calls>>

\* one super-step of the engine: the node returns update, which is merged
Superstep(node, update) ==
  /\ state' = Merge(state, update)
  /\ supersteps' = supersteps + 1
  /\ executed' = Append(executed, node)

\* faulty variant: the node catches the failure, records it on the error field and the run
\* goes on to the terminal marker
LLMRaises_Recorded(node, logs) ==
  /\ state' = [state EXCEPT !.logs = logs, !.error = Some(LLMErrorText)]
  /\ supersteps' = supersteps + 1
  /\ executed' = Append(executed, node)
  /\ llm_calls' = Append(llm_calls, [node |-> node, raised |-> TRUE])
  /\ exc' = exc
  /\ pc' = "END"

\* faulty variant: the failure is swallowed and the run goes on to the terminal marker
LLMRaises_Swallowed(node, logs) ==
  /\ state' = [state EXCEPT !.logs = logs]
  /\ supersteps' = supersteps + 1
  /\ executed' = Append(executed, node)
  /\ llm_calls' = Append(llm_calls, [node |-> node, raised |-> TRUE])
  /\ exc' = exc
  /\ pc' = "END"

\* a language-model call inside node raises: the log entries written so far stay in
\* the state object, nothing is returned and the exception leaves graph.invoke
LLMRaises(node, logs) ==
  /\ state' = [state EXCEPT !.logs = logs]
  /\ supersteps' = supersteps + 1
  /\ executed' = Append(executed, node)
  /\ llm_calls' = Append(llm_calls, [node |-> node, raised |-> TRUE])
  /\ exc' = Some(LLMErrorText)
  /\ pc' = "raised"

ReactNode ==
  /\ pc = "react_node"
  /\ IF supersteps >= RECURSION_LIMIT
       THEN GraphRecursionError
       ELSE /\ Superstep("react_node", _react_node(state, contacts))
            /\ pc' = ReactRouter(state')
            /\ UNCHANGED <<llm_calls, exc>>
  /\ UNCHANGED <<a2a_service, a2a_call, channel_up, comparison, described, parked, contacts, session, result, agent_steps, ws>>

ContactNode ==
  /\ pc = "contact_node"
  /\ IF supersteps >= RECURSION_LIMIT
       THEN GraphRecursionError
       ELSE \/ \E resolved_name \in LLMNames :
                 /\ Superstep("contact_node", _contact_node(state, resolved_name))
                 /\ llm_calls' = Append(llm_calls, [node |-> "contact_node", raised |-> FALSE,
                                                   reply |-> resolved_name])
                 /\ pc' = "react_node"
                 /\ UNCHANGED exc
            \/ LLMRaises("contact_node", ContactNodeLogs(state))
  /\ UNCHANGED <<a2a_service, a2a_call, channel_up, comparison, described, parked, contacts, session, result, agent_steps, ws>>

EmailNode ==
  /\ pc = "email_node"
  /\ IF supersteps >= RECURSION_LIMIT
       THEN GraphRecursionError
       ELSE \/ \E email_content \in LLMTexts :
                 /\ Superstep("email_node", _email_node(state, email_content))
                 /\ llm_calls' = Append(llm_calls, [node |-> "email_node", raised |-> FALSE,
                                                   reply |-> email_content])
                 /\ pc' = "END"
                 /\ UNCHANGED exc
            \/ LLMRaises("email_node", EmailNodeLogs(state))
  /\ UNCHANGED <<a2a_service, a2a_call, channel_up, comparison, described, parked, contacts, session, result, agent_steps, ws>>

\* faulty variant: the email node has its text drafted by the language model
RigidNode_Drafting(node, update) ==
  /\ pc = node
  /\ Superstep(node, update)
  /\ pc' = RigidEdges[node]
  /\ llm_calls' = IF node = "email"
                    THEN Append(llm_calls, [node |-> "email", raised |-> FALSE])
                    ELSE llm_calls
  /\ UNCHANGED <<a2a_service, a2a_call, channel_up, comparison, described, parked, contacts, session, result, exc, agent_steps, ws>>

RigidNode(node, update) ==
  /\ pc = node
  /\ IF supersteps >= RECURSION_LIMIT
       THEN GraphRecursionError
       ELSE /\ Superstep(node, update)
            /\ pc' = RigidEdges[node]
            /\ UNCHANGED <<llm_calls, exc>>
  /\ UNCHANGED <<a2a_service, a2a_call, channel_up, comparison, described, parked, contacts, session, result, agent_steps, ws>>

Planner == RigidNode("planner", _plan_node(state))

Contacts == RigidNode("contacts", _contacts_node(state, contacts))

Email == RigidNode("email", RigidEmailNode(state))

Supervisor ==
  /\ pc = "supervisor"
  /\ IF supersteps >= RECURSION_LIMIT
       THEN GraphRecursionError
       ELSE /\ Superstep("supervisor", _supervisor_node(state))
            /\ pc' = RouteLabel(MultiRouterEdges, _route_from_supervisor(state'))
            /\ UNCHANGED <<llm_calls, exc>>
  /\ UNCHANGED <<a2a_service, a2a_call, channel_up, comparison, described, parked, contacts, session, result, agent_steps, ws>>

\* a node of the Multi-Phase graph that calls the language model once: updates are
\* the partial updates it may return, one for each reply, and empties those of an
\* empty reply
MultiModelNode(node, updates, empties) ==
  /\ pc = node
  /\ IF supersteps >= RECURSION_LIMIT
       THEN GraphRecursionError
       ELSE \/ \E update \in updates :
                 /\ Superstep(node, update)
                 /\ llm_calls' = Append(llm_calls, [node |-> node, raised |-> FALSE,
                                                   empty |-> update \in empties])
                 /\ pc' = MultiEdges[node]
                 /\ UNCHANGED exc
            \/ LLMRaises(node, MultiLogs(state, node))
  /\ UNCHANGED <<a2a_service, a2a_call, channel_up, comparison, described, parked, contacts, session, result, agent_steps, ws>>

Research == MultiModelNode("research", {_research_node(state, r) : r \in LLMTexts},
                 {_research_node(state, <<>>)})

Reasoning == MultiModelNode("reasoning", {_reasoning_node(state, r) : r \in LLMTexts},
                 {_reasoning_node(state, <<>>)})

Action == MultiModelNode("action", {_action_node(state, r) : r \in LLMTexts},
                 {_action_node(state, <<>>)})

Synthesize == MultiModelNode("synthesize", {_synthesize_node(state, r) : r \in LLMTexts},
                 {_synthesize_node(state, <<>>)})

\* values of int((time.time() - start) * 1000)
ElapsedMs == {0, 1}

\* the dict run() returns, with its entry "execution_time_ms": elapsed_ms
Timed(res, elapsed_ms) ==
  [k \in DOMAIN res \cup {"execution_time_ms"} |->
     IF k = "execution_time_ms" THEN elapsed_ms ELSE res[k]]

\* graph.invoke reached END: run() builds and returns its result
RunReturn ==
  /\ pc = "END"
  /\ session.agent_type \in Dispatched
  /\ \E elapsed_ms \in ElapsedMs :
       result' = Some(Timed(CASE session.agent_type = "react" -> ReactResult(state)
                              [] session.agent_type = "rigid" -> RigidResult(state)
                              [] session.agent_type = "multi" -> MultiResult(state),
                            elapsed_ms))
  /\ pc' = "returned"
  /\ UNCHANGED <<a2a_service, a2a_call, channel_up, comparison, described, parked, contacts, session, state, supersteps, executed, llm_calls, exc,
                 agent_steps, ws>>

\* AgentStep.objects.create for each entry of the result's step_history
StepRows(step_history) ==
  [i \in 1..Len(step_history) |->
     [node_name |-> step_history[i].node, step_number |-> i, status |-> "completed"]]

\* faulty variant: a send that the channel layer refuses marks the session failed
ExecuteAgentFinish_FailsOnSend ==
  /\ pc = "returned"
  /\ session.agent_type \in Dispatched
  /\ LET res == Val(result)
         status == IF res.status = "completed" THEN "completed" ELSE "failed"
         error == Get(res, "error")
     IN  /\ session' = [session EXCEPT
                          !.status = IF channel_up THEN status ELSE "failed",
                          !.final_result = Some(res.result),
                          !.execution_time_ms = Some(res.execution_time_ms),
                          !.retry_count = IF "retry_count" \in DOMAIN res
                                            THEN res.retry_count ELSE 0,
                          !.error_message = IF Truthy(error) THEN Val(error) ELSE @,
                          !.graph_definition = Some(session.agent_type)]
         /\ agent_steps' = StepRows(res.step_history)
         /\ ws' = _send_ws_update(ws, [status |-> status, result |-> res.result,
                          execution_time_ms |-> res.execution_time_ms])
  /\ pc' = "done"
  /\ UNCHANGED <<a2a_service, a2a_call, channel_up, comparison, described, parked, contacts, state, supersteps, executed, llm_calls, result, exc>>

\* _execute_agent after run() returned
ExecuteAgentFinish ==
  /\ pc = "returned"
  /\ session.agent_type \in Dispatched
  /\ LET res == Val(result)
         status == IF res.status = "completed" THEN "completed" ELSE "failed"
         error == Get(res, "error")
     IN  /\ session' = [session EXCEPT
                          !.status = status,
                          !.final_result = Some(res.result),
                          !.execution_time_ms = Some(res.execution_time_ms),
                          !.retry_count = IF "retry_count" \in DOMAIN res
                                            THEN res.retry_count ELSE 0,
                          !.error_message = IF Truthy(error) THEN Val(error) ELSE @,
                          !.graph_definition = Some(session.agent_type)]
         /\ agent_steps' = StepRows(res.step_history)
         /\ ws' = _send_ws_update(ws, [status |-> status, result |-> res.result,
                          execution_time_ms |-> res.execution_time_ms])
  /\ pc' = "done"
  /\ UNCHANGED <<a2a_service, a2a_call, channel_up, comparison, described, parked, contacts, state, supersteps, executed, llm_calls, result, exc>>

\* faulty variant: the except branch reports the failure but leaves the row as it is
ExecuteAgentExcept_KeepsRunning ==
  /\ pc = "raised"
  /\ session.agent_type \in Dispatched \/ state = None
  /\ session' = [session EXCEPT !.error_message = Val(exc)]
  /\ ws' = _send_ws_update(ws, [status |-> "failed", error |-> Val(exc)])
  /\ pc' = "done"
  /\ UNCHANGED <<a2a_service, a2a_call, channel_up, comparison, described, parked, contacts, state, supersteps, executed, llm_calls, result, exc, agent_steps>>

\* _execute_agent's except branch
ExecuteAgentExcept ==
  /\ pc = "raised"
  /\ session.agent_type \in Dispatched \/ state = None
  /\ session' = [session EXCEPT !.status = "failed", !.error_message = Val(exc)]
  /\ ws' = _send_ws_update(ws, [status |-> "failed", error |-> Val(exc)])
  /\ pc' = "done"
  /\ UNCHANGED <<a2a_service, a2a_call, channel_up, comparison, described, parked, contacts, state, supersteps, executed, llm_calls, result, exc, agent_steps>>

-----------------------------------------------------------------------------
(* The Recursive-Refine workflow: recursive_qa.py and _execute_recursive_qa *)

\* the range RecursiveQARequestSerializer accepts for max_refinements
MIN_REFINEMENTS == 1
MAX_REFINEMENTS == 10

\* confidences are counted in hundredths: 85 stands for 0.85
TargetConfidences == {85}

Confidences == {50, 85, 100}

\* outputs of the structured evaluator, a QAEvaluation each
Evaluations ==
  [confidence : Confidences,
   is_satisfactory : BOOLEAN,
   suggested_refinement : {<<"N", "a", "m", "e", " ", "t", "h", "e", " ", "p", "e", "r", "s", "o", "n">>},
   reasoning : {<<"T", "o", "o", " ", "v", "a", "g", "u", "e">>}]

\* replies of the model to the refine prompt, before strip()
RefineReplies == {<<" ", "M", "a", "i", "l", " ", "J", "o", "h", "n", " ", "D", "o", "e", "\\", "n">>}

\* str.strip()
RECURSIVE Strip(_)
Strip(s) ==
  IF s = <<>> THEN s
  ELSE IF Head(s) \in Whitespace THEN Strip(Tail(s))
  ELSE IF s[Len(s)] \in Whitespace THEN Strip(SubSeq(s, 1, Len(s) - 1))
  ELSE s

\* answer is the content of the model's reply
_answer_node(st, answer) ==
  LET iteration == st.iteration + 1
  IN  [current_answer |-> answer,
       iteration |-> iteration,
       logs |-> _log(st.logs, "INFO", "answer_node: Answering query"),
       step_history |-> Append(st.step_history,
                               [node |-> "answer_node", action |-> "answer_generated",
                                iteration |-> iteration, query |-> st.current_query])]

\* faulty variant: the confidence has to exceed the target
ShouldStop_Strict(st, evaluation) ==
  \/ evaluation.confidence > st.target_confidence
  \/ st.iteration >= st.max_iterations
  \/ evaluation.is_satisfactory

\* should_stop of _evaluate_node
ShouldStop(st, evaluation) ==
  \/ evaluation.confidence >= st.target_confidence
  \/ st.iteration >= st.max_iterations
  \/ evaluation.is_satisfactory

\* the log entry _evaluate_node writes before it calls the evaluator
EvaluateLogs(st) == _log(st.logs, "INFO", "evaluate_node: Evaluating answer quality")

\* faulty variant: the new entry replaces the history instead of extending it
_evaluate_node_Overwrite(st, evaluation) ==
  LET history_entry == [iteration |-> st.iteration,
                        query |-> st.current_query,
                        answer |-> st.current_answer,
                        confidence |-> evaluation.confidence,
                        is_satisfactory |-> evaluation.is_satisfactory,
                        refinement_suggestion |-> evaluation.suggested_refinement,
                        reasoning |-> evaluation.reasoning]
      should_stop == ShouldStop(st, evaluation)
  IN  [confidence |-> evaluation.confidence,
       history |-> <<history_entry>>,
       is_complete |-> should_stop,
       logs |-> _log(EvaluateLogs(st), "INFO", "evaluate_node: confidence, satisfactory, stop"),
       step_history |-> Append(st.step_history,
                               [node |-> "evaluate_node", action |-> "evaluation_complete",
                                confidence |-> evaluation.confidence,
                                is_satisfactory |-> evaluation.is_satisfactory,
                                should_stop |-> should_stop])]

_evaluate_node(st, evaluation) ==
  LET history_entry == [iteration |-> st.iteration,
                        query |-> st.current_query,
                        answer |-> st.current_answer,
                        confidence |-> evaluation.confidence,
                        is_satisfactory |-> evaluation.is_satisfactory,
                        refinement_suggestion |-> evaluation.suggested_refinement,
                        reasoning |-> evaluation.reasoning]
      should_stop == ShouldStop(st, evaluation)
  IN  [confidence |-> evaluation.confidence,
       history |-> st.history \o <<history_entry>>,
       is_complete |-> should_stop,
       logs |-> _log(EvaluateLogs(st), "INFO", "evaluate_node: confidence, satisfactory, stop"),
       step_history |-> Append(st.step_history,
                               [node |-> "evaluate_node", action |-> "evaluation_complete",
                                confidence |-> evaluation.confidence,
                                is_satisfactory |-> evaluation.is_satisfactory,
                                should_stop |-> should_stop])]

\* reply is the content of the model's reply to the refine prompt
_refine_node(st, reply) ==
  LET refined == Strip(reply)
  IN  [current_query |-> refined,
       logs |-> _log(st.logs, "INFO", "refine_node: Refining query based on feedback"),
       step_history |-> Append(st.step_history,
                               [node |-> "refine_node", action |-> "query_refined",
                                original |-> st.current_query, refined |-> refined])]

\* faulty variant: a finished run is announced with a label the table lacks
_should_continue_Stop(st) == IF st.is_complete THEN "stop" ELSE "refine"

\* the router of the conditional edge out of evaluate
_should_continue(st) == IF st.is_complete THEN "end" ELSE "refine"

\* a label table that sends the label refine straight back to answer
RecursiveEdges_SkipRefine == [refine |-> "answer", end |-> "END"]

\* the label table of that conditional edge
RecursiveEdges == [refine |-> "refine", end |-> "END"]

\* initial_state of RecursiveQAService.run
RecursiveInitialState(query, document_context, max_refinements, target_confidence) ==
  [original_query |-> query, current_query |-> query, current_answer |-> <<>>,
   confidence |-> 0, target_confidence |-> target_confidence, iteration |-> 0,
   max_iterations |-> max_refinements, history |-> <<>>,
   document_context |-> document_context, logs |-> <<>>, step_history |-> <<>>,
   is_complete |-> FALSE]

\* the dict RecursiveQAService.run returns for the final state output
RecursiveResult(output) ==
  [status |-> "completed",
   result |-> [final_answer |-> output.current_answer,
               final_confidence |-> output.confidence,
               total_iterations |-> output.iteration,
               refinement_history |-> output.history],
   logs |-> output.logs,
   step_history |-> output.step_history]

InitRecursive ==
  /\ contacts = <<>>
  /\ session \in NewSessions({"recursive"}, {<<>>})
  /\ state = None
  /\ pc = "idle"
  /\ supersteps = 0
  /\ executed = <<>>
  /\ llm_calls = <<>>
  /\ result = None
  /\ exc = None
  /\ agent_steps = <<>>
  /\ ws = <<>>
  /\ parked = <<>>
  /\ described = <<>>
  /\ comparison = None
  /\ channel_up = TRUE
  /\ a2a_service = A2AService
  /\ a2a_call = None

\* _execute_recursive_qa up to graph.invoke, called with the validated
\* max_refinements and target_confidence of the request
ExecuteRecursiveQABegin ==
  /\ pc = "idle"
  /\ session.agent_type = "recursive"
  /\ session' = [session EXCEPT !.status = "running"]
  /\ ws' = _send_ws_update(ws, [status |-> "running", agent_type |-> "recursive"])
  /\ \E max_refinements \in MIN_REFINEMENTS..MAX_REFINEMENTS,
        target_confidence \in TargetConfidences :
       state' = RecursiveInitialState(session.user_message, <<>>, max_refinements,
                                      target_confidence)
  /\ pc' = "answer"
  /\ UNCHANGED <<a2a_service, a2a_call, channel_up, comparison, described, parked, contacts, supersteps, executed, llm_calls, result, exc, agent_steps>>

\* a node of the Recursive-Refine graph, which calls a model once: updates are the
\* partial updates it may return, one for each reply
RecursiveNode(node, updates, logs) ==
  /\ pc = node
  /\ IF supersteps >= RECURSION_LIMIT
       THEN GraphRecursionError
       ELSE \/ \E update \in updates :
                 /\ Superstep(node, update)
                 /\ llm_calls' = Append(llm_calls, [node |-> node, raised |-> FALSE])
                 /\ pc' = CASE node = "answer" -> "evaluate"
                            [] node = "evaluate" ->
                                 RouteLabel(RecursiveEdges, _should_continue(state'))
                            [] node = "refine" -> "answer"
                 /\ UNCHANGED exc
            \/ LLMRaises(node, logs)
  /\ UNCHANGED <<a2a_service, a2a_call, channel_up, comparison, described, parked, contacts, session, result, agent_steps, ws>>

Answer ==
  RecursiveNode("answer", {_answer_node(state, a) : a \in LLMTexts},
                _log(state.logs, "INFO", "answer_node: Answering query"))

Evaluate ==
  RecursiveNode("evaluate", {_evaluate_node(state, e) : e \in Evaluations},
                EvaluateLogs(state))

Refine ==
  RecursiveNode("refine", {_refine_node(state, r) : r \in RefineReplies},
                _log(state.logs, "INFO", "refine_node: Refining query based on feedback"))

\* graph.invoke reached END: run() builds and returns its result
RecursiveReturn ==
  /\ pc = "END"
  /\ session.agent_type = "recursive"
  /\ \E elapsed_ms \in ElapsedMs :
       result' = Some(Timed(RecursiveResult(state), elapsed_ms))
  /\ pc' = "returned"
  /\ UNCHANGED <<a2a_service, a2a_call, channel_up, comparison, described, parked, contacts, session, state, supersteps, executed, llm_calls, exc,
                 agent_steps, ws>>

\* _execute_recursive_qa after run() returned
ExecuteRecursiveQAFinish ==
  /\ pc = "returned"
  /\ session.agent_type = "recursive"
  /\ LET res == Val(result)
     IN  /\ session' = [session EXCEPT
                          !.status = "completed",
                          !.final_result = Some(res.result),
                          !.execution_time_ms = Some(res.execution_time_ms),
                          !.graph_definition = Some("recursive")]
         /\ agent_steps' = StepRows(res.step_history)
         /\ ws' = _send_ws_update(ws, [status |-> "completed", result |-> res.result])
  /\ pc' = "done"
  /\ UNCHANGED <<a2a_service, a2a_call, channel_up, comparison, described, parked, contacts, state, supersteps, executed, llm_calls, result, exc>>

\* _execute_recursive_qa's except branch
ExecuteRecursiveQAExcept ==
  /\ pc = "raised"
  /\ session.agent_type = "recursive" /\ state # None
  /\ session' = [session EXCEPT !.status = "failed", !.error_message = Val(exc)]
  /\ ws' = _send_ws_update(ws, [status |-> "failed", error |-> Val(exc)])
  /\ pc' = "done"
  /\ UNCHANGED <<a2a_service, a2a_call, channel_up, comparison, described, parked, contacts, state, supersteps, executed, llm_calls, result, exc, agent_steps>>

NextRecursive ==
  \/ ExecuteRecursiveQABegin
  \/ Answer
  \/ Evaluate
  \/ Refine
  \/ RecursiveReturn
  \/ ExecuteRecursiveQAFinish
  \/ ExecuteRecursiveQAExcept

SpecRecursive == InitRecursive /\ [][NextRecursive]_vars

\* the runs of one session through either entry point
Next ==
  \/ ExecuteAgentBegin
  \/ ReactNode
  \/ ContactNode
  \/ EmailNode
  \/ Planner
  \/ Contacts
  \/ Email
  \/ Supervisor
  \/ Research
  \/ Reasoning
  \/ Action
  \/ Synthesize
  \/ RunReturn
  \/ ExecuteAgentFinish
  \/ ExecuteAgentExcept
  \/ ExecuteRecursiveQABegin
  \/ Answer
  \/ Evaluate
  \/ Refine
  \/ RecursiveReturn
  \/ ExecuteRecursiveQAFinish
  \/ ExecuteRecursiveQAExcept

Spec == Init /\ [][Next]_vars


-----------------------------------------------------------------------------
(* Two concurrent calls of _execute_agent *)

\* the session and the locals of the call that is taking steps
Locals ==
  [session |-> session, state |-> state, pc |-> pc, supersteps |-> supersteps,
   executed |-> executed, llm_calls |-> llm_calls, result |-> result, exc |-> exc,
   agent_steps |-> agent_steps, ws |-> ws]

\* a call that has not started yet
Idle(s) ==
  [session |-> s, state |-> None, pc |-> "idle", supersteps |-> 0, executed |-> <<>>,
   llm_calls |-> <<>>, result |-> None, exc |-> None, agent_steps |-> <<>>, ws |-> <<>>]

\* the directory and the sessions of the concurrent calls
TwoRunsDirectory == PoolRows({2, 4}, 1)

TwoRunsSessions ==
  {s \in NewSessions({"react", "rigid"}, {<<"J", "o", "h", "n">>, <<"D", "o", "e">>}) : s.user_message = <<"M", "a", "i", "l", " ", "J", "o", "h", "n">>}

InitTwoRuns ==
  /\ contacts = TwoRunsDirectory
  /\ session \in TwoRunsSessions
  /\ parked \in {Idle(s) : s \in TwoRunsSessions}
  /\ state = None
  /\ pc = "idle"
  /\ supersteps = 0
  /\ executed = <<>>
  /\ llm_calls = <<>>
  /\ result = None
  /\ exc = None
  /\ agent_steps = <<>>
  /\ ws = <<>>
  /\ described = <<>>
  /\ comparison = None
  /\ channel_up = TRUE
  /\ a2a_service = A2AService
  /\ a2a_call = None

\* the scheduler passes control to the other call between two steps
Interleave ==
  /\ parked # <<>>
  /\ session' = parked.session
  /\ state' = parked.state
  /\ pc' = parked.pc
  /\ supersteps' = parked.supersteps
  /\ executed' = parked.executed
  /\ llm_calls' = parked.llm_calls
  /\ result' = parked.result
  /\ exc' = parked.exc
  /\ agent_steps' = parked.agent_steps
  /\ ws' = parked.ws
  /\ parked' = Locals
  /\ UNCHANGED <<contacts, described, comparison, channel_up, a2a_service, a2a_call>>

NextTwoRuns ==
  \/ ExecuteAgentBegin
  \/ ReactNode
  \/ ContactNode
  \/ EmailNode
  \/ Planner
  \/ Contacts
  \/ Email
  \/ RunReturn
  \/ ExecuteAgentFinish
  \/ ExecuteAgentExcept
  \/ Interleave

SpecTwoRuns == InitTwoRuns /\ [][NextTwoRuns]_vars

-----------------------------------------------------------------------------
(* Observations used by the properties *)

StartsWith(s, prefix) == Len(s) >= Len(prefix) /\ SubSeq(s, 1, Len(prefix)) = prefix

\* how many times node was invoked
Count(node) == Cardinality({i \in 1..Len(executed) : executed[i] = node})

IsReact == session.agent_type = "react"
IsRigid == session.agent_type = "rigid"

\* the run is inside graph.invoke or past it
Started == pc # "idle"

\* graph.invoke reached the terminal marker
AtTerminal == pc = "END" \/ result # None

\* the contact_lookup records react_node has written
Lookups ==
  SelectSeq(state.step_history,
            LAMBDA r : r.node = "react_node" /\ r.action = "contact_lookup")

NodesOf(step_history) == [i \in 1..Len(step_history) |-> step_history[i].node]

\* the whitespace-delimited tokens of s, read off s directly: the maximal
\* stretches of s without whitespace
Tokens(s) ==
  {SubSeq(s, p[1], p[2]) :
     p \in {q \in (1..Len(s)) \X (1..Len(s)) :
              /\ q[1] <= q[2]
              /\ \A k \in q[1]..q[2] : s[k] \notin Whitespace
              /\ q[1] = 1 \/ s[q[1] - 1] \in Whitespace
              /\ q[2] = Len(s) \/ s[q[2] + 1] \in Whitespace}}

ActiveNames == {contacts[i].name : i \in {j \in 1..Len(contacts) : contacts[j].is_active}}

Range(seq) == {seq[i] : i \in 1..Len(seq)}

-----------------------------------------------------------------------------
(* ReAct: the retry bound *)

\* C1: a ReAct run in which every lookup found two or more matches reaches the
\* terminal marker after exactly 5 contact_node executions with the error
\* MAX_RETRIES_EXCEEDED, and contact_node never runs a 6th time.
C1_AlwaysAmbiguousStopsAtFive ==
  (IsReact /\ Started) =>
    /\ Count("contact_node") <= 5
    /\ (AtTerminal /\ \A i \in 1..Len(Lookups) : Len(Lookups[i].matches) >= 2) =>
         /\ Count("contact_node") = 5
         /\ state.counter = 5
         /\ state.error = Some(<<"M", "A", "X", "_", "R", "E", "T", "R", "I", "E", "S", "_", "E", "X", "C", "E", "E", "D", "E", "D", " ", "a", "f", "t", "e", "r", " ", "5", " ", "a", "t", "t", "e", "m", "p", "t", "s">>)
         /\ StartsWith(Val(state.error), <<"M", "A", "X", "_", "R", "E", "T", "R", "I", "E", "S", "_", "E", "X", "C", "E", "E", "D", "E", "D">>)
         /\ result # None => Val(result).result.error = state.error

C1_Witness ==
  /\ IsReact /\ pc = "done" /\ result # None
  /\ Len(Lookups) = 5
  /\ \A i \in 1..Len(Lookups) : Len(Lookups[i].matches) >= 2
  /\ Count("contact_node") = 5

\* C2: every ReAct run executes at most 6 react_node, 5 contact_node and
\* 1 email_node steps, 11 in all, never reaches the engine's limit of 25
\* super-steps, and while it has not reached the terminal marker (and no model
\* call has failed) a node is always ready to run.
C2_ReactBounded ==
  (IsReact /\ Started) =>
    /\ Count("react_node") <= 6
    /\ Count("contact_node") <= 5
    /\ Count("email_node") <= 1
    /\ Len(executed) <= 11
    /\ supersteps = Len(executed)
    /\ supersteps < RECURSION_LIMIT
    /\ exc # None => exc = Some(LLMErrorText)
    /\ pc \in {"react_node", "contact_node", "email_node", "END", "raised", "returned", "done"}
    /\ pc = "react_node" => ENABLED ReactNode
    /\ pc = "contact_node" => ENABLED ContactNode
    /\ pc = "email_node" => ENABLED EmailNode

C2_Witness ==
  /\ IsReact /\ pc = "done" /\ result # None
  /\ Len(executed) = 11
  /\ Count("react_node") = 6

-----------------------------------------------------------------------------
(* ReAct: lookup and routing *)

\* C3: when react_node runs with its counter below 5, zero matches set the error
\* CONTACT_NOT_FOUND and lead to the terminal marker, exactly one match stores
\* that contact in details and leads to email_node, and more than one match sets
\* an AMBIGUOUS error and leads to contact_node.
C3_ReactNodeOutcome ==
  [][ (pc = "react_node" /\ state.counter < 5) =>
        LET db == _get_contacts_db(contacts)
            user_name == IF Truthy(state.user_name) THEN Val(state.user_name) ELSE <<>>
            matches == ReactMatches(db, user_name)
        IN  /\ Len(matches) = 0 =>
                 /\ state'.error = Some(<<"C", "O", "N", "T", "A", "C", "T", "_", "N", "O", "T", "_", "F", "O", "U", "N", "D">>)
                 /\ pc' = "END"
                 /\ state'.details = state.details
            /\ Len(matches) = 1 =>
                 /\ state'.details = Some(ContactOf(db, matches[1]))
                 /\ pc' = "email_node"
                 /\ state'.error = state.error
            /\ Len(matches) > 1 =>
                 /\ StartsWith(Val(state'.error), <<"A", "M", "B", "I", "G", "U", "O", "U", "S", ":", " ">>)
                 /\ pc' = "contact_node"
                 /\ state'.details = state.details
            /\ pc' \in {"END", "email_node", "contact_node"} ]_vars

C3_Witness ==
  /\ IsReact /\ pc = "email_node"
  /\ state.counter \in 1..4
  /\ executed[Len(executed)] = "react_node"
  /\ Val(state.details).name \in ActiveNames

\* the record react_node has just written, when the latest step is a lookup
LatestLookup == state.step_history[Len(state.step_history)]

JustLookedUp ==
  /\ IsReact /\ Started
  /\ state.step_history # <<>>
  /\ LatestLookup.node = "react_node"
  /\ LatestLookup.action = "contact_lookup"

\* C4: every lookup of react_node returns exactly the active directory entries
\* whose lower-cased token set contains every lower-cased token of the target
\* name; an empty or whitespace-only target has no token and returns them all.
C4_TokenMatcher ==
  JustLookedUp =>
    /\ Range(LatestLookup.matches) =
         {name \in ActiveNames : Tokens(Lower(LatestLookup.input)) \subseteq Tokens(Lower(name))}
    /\ Len(LatestLookup.matches) = Cardinality(Range(LatestLookup.matches))
    /\ Tokens(LatestLookup.input) = {} => Range(LatestLookup.matches) = ActiveNames

\* a substring of two names that is no token of either matches nothing, tokens
\* match in any order and in any case, and a whitespace-only target matches all
C4_Witness ==
  /\ IsReact /\ Started
  /\ Cardinality(ActiveNames) = 3
  /\ Len(Lookups) = 1
  /\ \/ Lookups[1].input = <<"J", "o">> /\ Lookups[1].matches = <<>>
     \/ Lookups[1].input = <<" ">> /\ Len(Lookups[1].matches) = 3

\* C5 as stated: with the directory {John Smith, John Doe} the target name John
\* yields zero matches.
C5_JohnMatchesNothing ==
  (IsReact /\ Started /\ ActiveNames = {<<"J", "o", "h", "n", " ", "S", "m", "i", "t", "h">>, <<"J", "o", "h", "n", " ", "D", "o", "e">>}) =>
    \A i \in 1..Len(Lookups) : Lookups[i].input = <<"J", "o", "h", "n">> => Lookups[i].matches = <<>>

\* C5: with the directory {John Smith, John Doe} the target name John yields two
\* matches, both entries, since john is a token of each; react_node records an
\* AMBIGUOUS error and the run goes to contact_node.
C5_JohnMatchesBoth ==
  (IsReact /\ Started /\ ActiveNames = {<<"J", "o", "h", "n", " ", "S", "m", "i", "t", "h">>, <<"J", "o", "h", "n", " ", "D", "o", "e">>}) =>
    \A i \in 1..Len(Lookups) :
      Lookups[i].input = <<"J", "o", "h", "n">> =>
        /\ Lookups[i].matches = <<<<"J", "o", "h", "n", " ", "D", "o", "e">>, <<"J", "o", "h", "n", " ", "S", "m", "i", "t", "h">>>>
        /\ "contact_node" \in Range(executed) \/ pc = "contact_node"

C5_Witness ==
  /\ IsReact /\ pc = "contact_node"
  /\ ActiveNames = {<<"J", "o", "h", "n", " ", "S", "m", "i", "t", "h">>, <<"J", "o", "h", "n", " ", "D", "o", "e">>}
  /\ Len(Lookups) = 1
  /\ Lookups[1].input = <<"J", "o", "h", "n">>
  /\ state.error = Some(<<"A", "M", "B", "I", "G", "U", "O", "U", "S", ":", " ", "[", "'", "J", "o", "h", "n", " ", "D", "o", "e", "'", ",", " ", "'", "J", "o", "h", "n", " ", "S", "m", "i", "t", "h", "'", "]">>)

-----------------------------------------------------------------------------
(* ReAct: the outcome of a run *)

\* C6 as stated: when the first lookup of a ReAct run finds exactly one match,
\* the run ends with status completed, step_history [react_node, email_node]
\* and retry count 0.
C6_SingleMatchCompletes ==
  (IsReact /\ result # None /\ Len(Lookups[1].matches) = 1) =>
    /\ Val(result).status = "completed"
    /\ NodesOf(Val(result).step_history) = <<"react_node", "email_node">>
    /\ Val(result).retry_count = 0

\* C7 as stated: the status of a ReAct run is completed exactly when email_node
\* executed; otherwise it is failed and the result's error is the
\* CONTACT_NOT_FOUND or MAX_RETRIES_EXCEEDED error of the last react_node.
C7_CompletedIffEmailNode ==
  (IsReact /\ result # None) =>
    /\ Val(result).status = "completed" <=> Count("email_node") > 0
    /\ Val(result).status # "completed" =>
         /\ Val(result).status = "failed"
         /\ Val(result).result.error # None
         /\ \/ Val(Val(result).result.error) = <<"C", "O", "N", "T", "A", "C", "T", "_", "N", "O", "T", "_", "F", "O", "U", "N", "D">>
            \/ StartsWith(Val(Val(result).result.error), <<"M", "A", "X", "_", "R", "E", "T", "R", "I", "E", "S", "_", "E", "X", "C", "E", "E", "D", "E", "D">>)

\* C8 as stated: a ReAct or Rigid run that reaches the terminal marker with a
\* non-empty error is reported failed and the caller gets that error text
\* unchanged (for Rigid, inside the failure message of the email node).
C8_ErrorMeansFailed ==
  result # None =>
    /\ (IsReact /\ Truthy(state.error)) =>
         /\ Val(result).status = "failed"
         /\ Val(result).result.error = state.error
    /\ (IsRigid /\ "error" \in DOMAIN state.contact_result) =>
         /\ Val(result).status = "failed"
         /\ Val(result).result.error # None
         /\ Contains(Val(Val(result).result.error), state.contact_result.error)

-----------------------------------------------------------------------------
(* ReAct: a failing model call *)

\* the latest language-model call raised
LLMFailed == llm_calls # <<>> /\ llm_calls[Len(llm_calls)].raised

\* C9 as stated: a failing model call in contact_node or email_node is recorded
\* on the error field, and the run still reaches the terminal marker and
\* returns a result.
C9_FailureRecordedOnState ==
  (IsReact /\ LLMFailed /\ pc = "done") =>
    /\ result # None
    /\ state.error = Some(LLMErrorText)

\* C9: a failing model call in contact_node or email_node leaves graph.invoke
\* and run() as an exception: the failing node writes neither the error field
\* nor a step record, no further node runs, run() returns no result, and
\* _execute_agent marks the session failed with the exception's text as
\* error_message and sends one failed update.
C9_FailureAbortsRun ==
  (IsReact /\ LLMFailed) =>
    /\ pc \in {"raised", "done"}
    /\ exc = Some(LLMErrorText)
    /\ result = None
    /\ state.error # Some(LLMErrorText)
    /\ executed[Len(executed)] = llm_calls[Len(llm_calls)].node
    /\ executed[Len(executed)] \in {"contact_node", "email_node"}
    /\ Len(state.step_history) = Len(executed) - 1
    /\ pc = "done" =>
         /\ session.status = "failed"
         /\ session.error_message = LLMErrorText
         /\ session.final_result = None
         /\ agent_steps = <<>>
         /\ ws[Len(ws)] = [status |-> "failed", error |-> LLMErrorText]

C9_Witness ==
  /\ IsReact /\ LLMFailed /\ pc = "done"
  /\ executed[Len(executed)] = "email_node"
  /\ Count("contact_node") > 0

-----------------------------------------------------------------------------
(* Rigid: the fixed sequence *)

RigidOrder == <<"planner", "contacts", "email">>

\* C10: every Rigid run executes planner, contacts, email, each once and in that
\* order, whatever the lookup finds; after a failed lookup email still runs and
\* returns a failure message; step_history ends with exactly the three records
\* of those nodes, in that order.
C10_RigidSequence ==
  (IsRigid /\ Started) =>
    /\ Len(executed) <= 3
    /\ executed = SubSeq(RigidOrder, 1, Len(executed))
    /\ NodesOf(state.step_history) =
         SubSeq(<<"plan_node", "contacts_node", "email_node">>, 1, Len(executed))
    /\ exc = None /\ pc # "raised"
    /\ pc \in {"planner", "contacts", "email"} =>
         /\ pc = RigidOrder[Len(executed) + 1]
         /\ ENABLED (Planner \/ Contacts \/ Email)
    /\ pc \in {"END", "returned", "done"} =>
         /\ executed = RigidOrder
         /\ ~Succeeded(state.contact_result) =>
              /\ StartsWith(Val(state.email_result), <<"C", "a", "n", "n", "o", "t", " ", "s", "e", "n", "d", " ", "e", "m", "a", "i", "l", ":", " ">>)
              /\ state.step_history[3].action = "email_failed"
    /\ result # None =>
         NodesOf(Val(result).step_history) = <<"plan_node", "contacts_node", "email_node">>

C10_Witness ==
  /\ IsRigid /\ pc = "done"
  /\ executed = RigidOrder
  /\ state.contact_result = [success |-> FALSE, error |-> <<"C", "O", "N", "T", "A", "C", "T", "_", "N", "O", "T", "_", "F", "O", "U", "N", "D">>]
  /\ Val(result).status = "failed"
  /\ Len(Val(result).step_history) = 3

-----------------------------------------------------------------------------
(* Rigid: outcome, matcher and collaborators *)

\* the matches of the lookup a Rigid run makes for its query
RigidLookup == RigidMatches(_get_contacts_db(contacts), state.user)

\* C11 as stated: a Rigid run is completed exactly when the lookup found one
\* match and the email node took its send branch; with zero or several
\* matches it is failed.
C11_CompletedIffOneMatch ==
  (IsRigid /\ result # None) =>
    /\ Val(result).status = "completed" <=>
         (Len(RigidLookup) = 1 /\ state.step_history[3].action = "email_sent")
    /\ Len(RigidLookup) # 1 => Val(result).status = "failed"

\* C12 as stated: every entry the token matcher of ReAct returns for a directory
\* and a query is returned by the substring matcher of Rigid for the same
\* directory and query.
C12_RigidSupersetOfReact ==
  JustLookedUp =>
    Range(LatestLookup.matches) \subseteq
      Range(RigidMatches(_get_contacts_db(contacts), LatestLookup.input))

NoWhitespace(s) == \A i \in 1..Len(s) : s[i] \notin Whitespace

\* C12: for a query without whitespace (a single token, or the empty string),
\* every entry the token matcher of ReAct returns is returned by the substring
\* matcher of Rigid for the same directory and query.
C12_SupersetForSingleToken ==
  (JustLookedUp /\ NoWhitespace(LatestLookup.input)) =>
    Range(LatestLookup.matches) \subseteq
      Range(RigidMatches(_get_contacts_db(contacts), LatestLookup.input))

C12_Witness ==
  /\ JustLookedUp
  /\ LatestLookup.input = <<"J", "o", "h", "n">>
  /\ Len(LatestLookup.matches) = 3
  /\ Len(RigidMatches(_get_contacts_db(contacts), LatestLookup.input)) = 3

\* the text the email node builds for a resolved contact
RigidTemplate(contact) ==
  <<"E", "m", "a", "i", "l", " ", "s", "e", "n", "t", " ", "t", "o", " ">> \o contact.name \o <<" ", "(">> \o contact.email \o <<")", " ", "|", " ", "s", "u", "b", "j", "e", "c", "t", "=", "'", "B", "u", "d", "g", "e", "t", " ", "M", "e", "e", "t", "i", "n", "g", "'">>

\* C13: no step of a Rigid run invokes the language model or changes the
\* directory, and the text of a sent email is the fixed template filled with
\* the resolved contact.
C13_RigidNeverCallsModel ==
  [][ IsRigid =>
        /\ llm_calls' = <<>>
        /\ contacts' = contacts
        /\ (pc = "email" /\ Succeeded(state.contact_result)) =>
             state'.email_result = Some(RigidTemplate(state.contact_result.contact)) ]_vars

C13_Witness ==
  /\ IsRigid /\ pc = "done"
  /\ Val(result).status = "completed"
  /\ state.step_history[3].action = "email_sent"
  /\ llm_calls = <<>>

-----------------------------------------------------------------------------
(* Multi-Phase: progress and order *)

IsMulti == session.agent_type = "multi"

Specialists == {"research", "reasoning", "action"}

\* C14 as stated: whatever text the model returns for the specialist phases,
\* the empty text included, a Multi-Phase run visits supervisor at most 4 times
\* and is never stopped by the engine's step limit: a run whose model calls all
\* return goes on to synthesize and the terminal marker.
C14_AtMostFourSupervisorVisits ==
  (IsMulti /\ Started) =>
    /\ Count("supervisor") <= 4
    /\ exc # None => exc = Some(LLMErrorText)

\* every specialist call so far returned a non-empty text
SpecialistsNonEmpty ==
  \A i \in 1..Len(llm_calls) :
    llm_calls[i].node \in Specialists => (~llm_calls[i].raised /\ ~llm_calls[i].empty)

MultiOrder ==
  <<"supervisor", "research", "supervisor", "reasoning", "supervisor", "action",
    "supervisor", "synthesize">>

\* C15: in a Multi-Phase run where each specialist returns a non-empty result the
\* node sequence is supervisor, research, supervisor, reasoning, supervisor,
\* action, supervisor, synthesize: 4 supervisor visits and one visit of each
\* specialist, in the order research, reasoning, action.
C15_MultiSequence ==
  (IsMulti /\ Started /\ SpecialistsNonEmpty) =>
    /\ Len(executed) <= Len(MultiOrder)
    /\ executed = SubSeq(MultiOrder, 1, Len(executed))
    /\ AtTerminal =>
         /\ executed = MultiOrder
         /\ Count("supervisor") = 4
         /\ \A n \in Specialists : Count(n) = 1

C15_Witness ==
  /\ IsMulti /\ pc = "done" /\ result # None
  /\ SpecialistsNonEmpty
  /\ executed = MultiOrder
  /\ session.status = "completed"

SpecialistLabels == {"research_agent", "reasoning_agent", "action_agent"}

Entries(step_history, labels) ==
  Cardinality({i \in 1..Len(step_history) : step_history[i].node \in labels})

FirstUnsetPhase(st) ==
  IF st.research_result = None THEN "research"
  ELSE IF st.reasoning_result = None THEN "reasoning"
  ELSE IF st.action_result = None THEN "action"
  ELSE "synthesize"

\* C17 as stated: on every visit the supervisor selects the first phase, in the
\* order research, reasoning, action, whose result field is unset, selects
\* synthesize exactly when the three fields are set, and the engine moves to the
\* node the supervisor selected.
C17_SelectsFirstUnset ==
  [][ (IsMulti /\ pc = "supervisor" /\ supersteps < RECURSION_LIMIT) =>
        /\ state'.phase = FirstUnsetPhase(state)
        /\ pc' = state'.phase ]_vars

-----------------------------------------------------------------------------
(* Recursive-Refine: cycles, completion flag and termination *)

IsRecursive == session.agent_type = "recursive"

\* every model call made so far returned
AllCallsReturned == \A i \in 1..Len(llm_calls) : ~llm_calls[i].raised

\* every evaluation so far was unsatisfactory, with a confidence below the target
AllEvaluationsLow ==
  \A i \in 1..Len(state.history) :
    /\ ~state.history[i].is_satisfactory
    /\ state.history[i].confidence < state.target_confidence

\* C18 as stated: a Recursive-Refine run with max_iterations = N, N >= 1, in which
\* every evaluation is unsatisfactory with a confidence below the target is not
\* cut short, and at the terminal marker it has performed exactly N answer and N
\* evaluate steps and N - 1 refine steps, its history has length N and its status
\* is completed.
C18_ExactlyNCycles ==
  (IsRecursive /\ Started /\ AllCallsReturned /\ AllEvaluationsLow) =>
    /\ exc = None
    /\ AtTerminal =>
         /\ Count("answer") = state.max_iterations
         /\ Count("evaluate") = state.max_iterations
         /\ Count("refine") = state.max_iterations - 1
         /\ Len(state.history) = state.max_iterations
         /\ result # None => Val(result).status = "completed"

\* C19: after each evaluate step the completion flag is true exactly when the
\* confidence is at least the target, or the iteration counter has reached
\* max_iterations, or the evaluation is satisfactory; the run goes to the terminal
\* marker exactly when the flag is true and to refine otherwise.
C19_CompletionFlag ==
  [][ (IsRecursive /\ pc = "evaluate" /\ pc' # "raised") =>
        LET entry == state'.history[Len(state'.history)]
        IN  /\ Len(state'.history) = Len(state.history) + 1
            /\ state'.confidence = entry.confidence
            /\ state'.is_complete <=>
                 \/ entry.confidence >= state.target_confidence
                 \/ state.iteration >= state.max_iterations
                 \/ entry.is_satisfactory
            /\ pc' = "END" <=> state'.is_complete
            /\ pc' = "refine" <=> ~state'.is_complete ]_vars

\* an evaluation that stops the run by its confidence alone, equal to the target
C19_Witness ==
  /\ IsRecursive /\ pc = "END"
  /\ state.confidence = state.target_confidence
  /\ ~state.history[Len(state.history)].is_satisfactory
  /\ state.iteration < state.max_iterations
  /\ state.is_complete

\* C20 as stated: a Recursive-Refine run whose model calls all return, for any
\* evaluation outputs and any max_iterations in 1..10, is never stopped by the
\* engine's step limit, makes at most max_iterations answer/evaluate cycles and
\* ends with status completed.
C20_AlwaysCompletes ==
  (IsRecursive /\ Started /\ AllCallsReturned) =>
    /\ state.max_iterations \in MIN_REFINEMENTS..MAX_REFINEMENTS
    /\ Count("answer") <= state.max_iterations
    /\ Count("evaluate") <= state.max_iterations
    /\ exc = None
    /\ pc # "raised"
    /\ result # None => Val(result).status = "completed"
    /\ pc = "done" => session.status = "completed"

-----------------------------------------------------------------------------
(* Recursive-Refine: the history *)

\* the evaluate visits that returned
CompletedEvaluations ==
  Cardinality({i \in 1..Len(llm_calls) :
                 llm_calls[i].node = "evaluate" /\ ~llm_calls[i].raised})

\* C21: in every state of a Recursive-Refine run the length of history is the
\* number of completed evaluate visits, a step never changes or removes an entry
\* of history, the k-th entry records iteration k, and at the terminal marker the
\* length of history equals the iteration counter.
C21_HistoryAppendOnly ==
  [][ (IsRecursive /\ Started /\ state # None) =>
        /\ Len(state'.history) = CompletedEvaluations'
        /\ Len(state'.history) >= Len(state.history)
        /\ SubSeq(state'.history, 1, Len(state.history)) = state.history
        /\ \A k \in 1..Len(state'.history) : state'.history[k].iteration = k
        /\ AtTerminal' => Len(state'.history) = state'.iteration ]_vars

C21_Witness ==
  /\ IsRecursive /\ pc = "done" /\ result # None
  /\ Len(state.history) = 3
  /\ CompletedEvaluations = 3
  /\ state.iteration = 3
  /\ state.max_iterations > 3

-----------------------------------------------------------------------------
(* All workflows: records, fields and routing *)

GraphNodes ==
  {"react_node", "contact_node", "email_node", "planner", "contacts", "email",
   "supervisor", "research", "reasoning", "action", "synthesize",
   "answer", "evaluate", "refine"}

\* the name under which each graph node writes its step record
NodeLabel(node) ==
  CASE node = "planner" -> "plan_node"
    [] node = "contacts" -> "contacts_node"
    [] node = "email" -> "email_node"
    [] node = "research" -> "research_agent"
    [] node = "reasoning" -> "reasoning_agent"
    [] node = "action" -> "action_agent"
    [] node = "synthesize" -> "synthesizer"
    [] node = "answer" -> "answer_node"
    [] node = "evaluate" -> "evaluate_node"
    [] node = "refine" -> "refine_node"
    [] OTHER -> node

IsPrefix(s, t) == Len(s) <= Len(t) /\ SubSeq(t, 1, Len(s)) = s

\* the step is a node execution that returned its update
NodeReturned == pc \in GraphNodes /\ Len(executed') = Len(executed) + 1 /\ pc' # "raised"

ReturnedKeys(node) ==
  CASE node = "react_node" -> {"details", "error", "flag", "logs", "step_history"}
    [] node = "contact_node" -> {"user_name", "counter", "logs", "step_history"}
    [] node = "email_node" -> {"email_content", "logs", "step_history"}
    [] node = "planner" -> {"steps", "logs", "step_history"}
    [] node = "contacts" -> {"contact_result", "logs", "step_history"}
    [] node = "email" -> {"email_result", "logs", "step_history"}
    [] node = "supervisor" -> {"phase", "logs", "step_history", "agent_messages"}
    [] node = "research" ->
         {"research_result", "phase", "logs", "step_history", "agent_messages"}
    [] node = "reasoning" ->
         {"reasoning_result", "phase", "logs", "step_history", "agent_messages"}
    [] node = "action" ->
         {"action_result", "phase", "logs", "step_history", "agent_messages"}
    [] node = "synthesize" ->
         {"final_answer", "should_continue", "logs", "step_history", "agent_messages"}
    [] node = "answer" -> {"current_answer", "iteration", "logs", "step_history"}
    [] node = "evaluate" ->
         {"confidence", "history", "is_complete", "logs", "step_history"}
    [] node = "refine" -> {"current_query", "logs", "step_history"}
    [] OTHER -> {}

\* the fields of the state that hold the request, for each workflow
RequestFields ==
  CASE IsReact -> {"message"}
    [] IsRigid -> {"user"}
    [] IsMulti -> {"query"}
    [] IsRecursive -> {"original_query", "target_confidence", "max_iterations"}

\* C23: a step changes only keys that the executing node returns and removes no
\* field of the state; the request fields (ReAct message, Rigid user, Multi-Phase
\* query, Recursive-Refine original_query, target_confidence and max_iterations)
\* keep their initial values throughout the run.
C23_OnlyReturnedKeysChange ==
  [][ (Started /\ state # None) =>
        /\ DOMAIN state' = DOMAIN state
        /\ \A k \in DOMAIN state : state'[k] # state[k] => k \in ReturnedKeys(pc)
        /\ \A k \in RequestFields : k \in DOMAIN state /\ state'[k] = state[k]
        /\ IsReact => state'.message = session.user_message
        /\ IsRigid => state'.user = IF session.user_name_target # <<>>
                                      THEN session.user_name_target
                                      ELSE session.user_message
        /\ IsMulti => state'.query = session.user_message
        /\ IsRecursive => state'.original_query = session.user_message ]_vars

\* finished runs in which the fields next to the request fields were overwritten
C23_Witness ==
  /\ pc = "done" /\ result # None
  /\ \/ IsReact /\ Count("contact_node") >= 1
            /\ state.user_name # Some(session.user_name_target)
     \/ IsRecursive /\ Count("refine") >= 1
            /\ state.current_query # state.original_query

\* the nodes build_graph declares for each workflow
DeclaredNodes(agent_type) ==
  CASE agent_type = "react" -> {"react_node", "contact_node", "email_node"}
    [] agent_type = "rigid" -> {"planner", "contacts", "email"}
    [] agent_type = "multi" -> {"supervisor", "research", "reasoning", "action", "synthesize"}
    [] agent_type = "recursive" -> {"answer", "evaluate", "refine"}

RangeOf(f) == {f[x] : x \in DOMAIN f}

\* C24: in the four workflows the label a router returns (the ReAct flag, the
\* Multi-Phase phase, the Recursive-Refine continue/end label) is a key of the
\* label table of its edge, and every step of the engine leads to a declared node
\* of the workflow or to the terminal marker: the configuration fault of an
\* unknown label is never reached.
C24_LabelsResolve ==
  [][ NodeReturned =>
        /\ pc' # "config_error"
        /\ pc \in DeclaredNodes(session.agent_type)
        /\ pc' \in DeclaredNodes(session.agent_type) \cup {"END"}
        /\ pc = "react_node" =>
             /\ state'.flag # None
             /\ Val(state'.flag) \in DOMAIN ReactEdges
             /\ pc' = ReactEdges[Val(state'.flag)]
        /\ pc = "supervisor" =>
             /\ state'.phase = _route_from_supervisor(state')
             /\ _route_from_supervisor(state') \in DOMAIN MultiRouterEdges
             /\ pc' = MultiRouterEdges[_route_from_supervisor(state')]
        /\ pc = "evaluate" =>
             /\ _should_continue(state') \in DOMAIN RecursiveEdges
             /\ pc' = RecursiveEdges[_should_continue(state')]
        /\ RangeOf(ReactEdges) \subseteq DeclaredNodes("react") \cup {"END"}
        /\ RangeOf(RigidEdges) \subseteq DeclaredNodes("rigid") \cup {"END"}
        /\ RangeOf(MultiRouterEdges) \cup RangeOf(MultiEdges)
             \subseteq DeclaredNodes("multi") \cup {"END"}
        /\ RangeOf(RecursiveEdges) \subseteq DeclaredNodes("recursive") \cup {"END"} ]_vars

\* a run that went through its router with each label of the table
C24_Witness ==
  /\ pc = "done" /\ result # None
  /\ \/ IsRecursive /\ Count("refine") >= 1 /\ state.is_complete
     \/ IsMulti /\ Count("synthesize") = 1 /\ Count("action") = 1
     \/ IsReact /\ Count("contact_node") >= 1 /\ Count("email_node") = 1

-----------------------------------------------------------------------------
(* The entry points: dispatch, session status and failures *)

\* C26 as stated: for each of the identifiers react, rigid, multi and recursive,
\* _execute_agent on a session of that type enters the graph of the matching
\* workflow; no identifier is rejected as unsupported.
C26_EveryTypeDispatched ==
  Started =>
    /\ state # None
    /\ exc # None => ~StartsWith(Val(exc), <<"U", "n", "s", "u", "p", "p", "o", "r", "t", "e", "d", " ", "a", "g", "e", "n", "t", " ", "t", "y", "p", "e">>)

\* C27: a session goes from pending to running and from running to completed or
\* failed and takes no other step; once the call has returned it is completed or
\* failed, and if the workflow returned a result it is completed exactly when the
\* status of that result is completed.
C27_SessionStatus ==
  [][ /\ session'.status # session.status =>
           \/ session.status = "pending" /\ session'.status = "running"
           \/ session.status = "running" /\ session'.status \in {"completed", "failed"}
      /\ pc' = "idle" <=> session'.status = "pending"
      /\ pc' = "done" <=> session'.status \in {"completed", "failed"}
      /\ (pc' = "done" /\ result' # None) =>
           (session'.status = "completed" <=> Val(result').status = "completed")
      /\ (pc' = "done" /\ result' = None) =>
           (session'.status = "failed" /\ exc' # None) ]_vars

\* a run that returned a failed result, and a run that raised
C27_Witness ==
  /\ pc = "done" /\ session.status = "failed"
  /\ \/ result # None /\ Val(result).status = "failed" /\ IsMulti
     \/ result = None /\ IsRecursive /\ state # None

\* C28: when a model call raises inside a node of a Multi-Phase or
\* Recursive-Refine run, that node is the last one executed and nothing is
\* returned; the session ends failed with the text of the failure as its
\* error_message and is never completed.
C28_ModelFailureFailsSession ==
  ((IsMulti \/ IsRecursive) /\ Started /\ state # None /\ LLMFailed) =>
    /\ llm_calls[Len(llm_calls)].raised
    /\ \A i \in 1..(Len(llm_calls) - 1) : ~llm_calls[i].raised
    /\ executed[Len(executed)] = llm_calls[Len(llm_calls)].node
    /\ Len(state.step_history) = Len(executed) - 1
    /\ exc = Some(LLMErrorText)
    /\ pc \in {"raised", "done"}
    /\ result = None
    /\ session.status # "completed"
    /\ pc = "done" =>
         /\ session.status = "failed"
         /\ session.error_message = LLMErrorText
         /\ ws[Len(ws)] = [status |-> "failed", error |-> LLMErrorText]

C28_Witness ==
  /\ pc = "done" /\ LLMFailed
  /\ \/ IsMulti /\ executed[Len(executed)] = "reasoning"
     \/ IsRecursive /\ state # None /\ executed[Len(executed)] = "refine"
  /\ session.status = "failed"
  /\ session.error_message = LLMErrorText

-----------------------------------------------------------------------------
(* Concurrent runs *)

\* the state a ReAct or Rigid graph ends in when it runs alone from st at node and
\* the model answers its calls with replies, in order
RECURSIVE RunAlone(_, _, _)
RunAlone(st, node, replies) ==
  CASE node = "react_node" ->
         LET next == Merge(st, _react_node(st, contacts))
         IN  RunAlone(next, ReactRouter(next), replies)
    [] node = "contact_node" ->
         RunAlone(Merge(st, _contact_node(st, Head(replies))), "react_node", Tail(replies))
    [] node = "email_node" ->
         RunAlone(Merge(st, _email_node(st, Head(replies))), "END", Tail(replies))
    [] node = "planner" -> RunAlone(Merge(st, _plan_node(st)), RigidEdges[node], replies)
    [] node = "contacts" ->
         RunAlone(Merge(st, _contacts_node(st, contacts)), RigidEdges[node], replies)
    [] node = "email" -> RunAlone(Merge(st, RigidEmailNode(st)), RigidEdges[node], replies)
    [] OTHER -> st

\* the call run, which has returned, ended as it would have ended alone
AsAlone(run) ==
  LET s == run.session
      replies == [i \in 1..Len(run.llm_calls) |-> run.llm_calls[i].reply]
      alone == IF s.agent_type = "react"
                 THEN RunAlone(ReactInitialState(s.user_message, s.user_name_target),
                               "react_node", replies)
                 ELSE RunAlone(RigidInitialState(s.user_message, s.user_name_target),
                               "planner", replies)
  IN  /\ run.state = alone
      /\ run.result = Some(Timed(IF s.agent_type = "react" THEN ReactResult(alone)
                                 ELSE RigidResult(alone),
                                 Val(run.result).execution_time_ms))
      /\ run.pc = "done" =>
           /\ run.session.final_result = Some(Val(run.result).result)
           /\ run.agent_steps = StepRows(alone.step_history)

-----------------------------------------------------------------------------
(* The description of a workflow: GraphVisualizer and GraphViewSet.retrieve *)

\* the keys of GraphVisualizer.AGENT_SERVICES
AGENT_SERVICES == {"react", "rigid", "multi", "recursive"}

\* identifiers of no workflow that a request may carry
UnknownIds == {"REACT"}

\* the values of the query parameter output_format that are told apart
OutputFormats == {"mermaid", "json"}

\* a call that returns v
Returned(v) == [raised |-> FALSE, value |-> v]

\* raise ValueError(f"Unknown agent type: {agent_type}")
ValueError(agent_type) ==
  [raised |-> TRUE, message |-> "Unknown agent type: " \o agent_type]

\* get_mermaid_definition of each service: the lines of the text it returns
get_mermaid_definition(agent_type) ==
  CASE agent_type = "react" ->
         <<"graph TD",
           "    START((Start)) --> react_node[React Node<br/>Contact Lookup & Reasoning]",
           "    react_node -->|approve| email_node[Email Node<br/>LLM Email Generation]",
           "    react_node -->|fail| contact_node[Contact Node<br/>LLM Disambiguation]",
           "    react_node -->|END| END_NODE((End))",
           "    contact_node --> react_node",
           "    email_node --> END_NODE",
           "",
           "    style react_node fill:#4CAF50,color:#fff",
           "    style contact_node fill:#FF9800,color:#fff",
           "    style email_node fill:#2196F3,color:#fff",
           "    style START fill:#9C27B0,color:#fff",
           "    style END_NODE fill:#f44336,color:#fff" >>
    [] agent_type = "rigid" ->
         <<"graph TD",
           "    START((Start)) --> planner[Planner<br/>Fixed Plan Generation]",
           "    planner --> contacts[Contacts<br/>Database Lookup]",
           "    contacts --> email[Email<br/>Send Email]",
           "    email --> END_NODE((End))",
           "",
           "    style planner fill:#9C27B0,color:#fff",
           "    style contacts fill:#4CAF50,color:#fff",
           "    style email fill:#2196F3,color:#fff",
           "    style START fill:#607D8B,color:#fff",
           "    style END_NODE fill:#f44336,color:#fff" >>
    [] agent_type = "multi" ->
         <<"graph TD",
           "    START((Start)) --> supervisor[Supervisor<br/>Workflow Orchestrator]",
           "    supervisor -->|research| research[Research Agent<br/>Information Gathering]",
           "    supervisor -->|reasoning| reasoning[Reasoning Agent<br/>Analysis & Synthesis]",
           "    supervisor -->|action| action[Action Agent<br/>Task Execution]",
           "    supervisor -->|synthesize| synthesize[Synthesizer<br/>Final Output]",
           "    research --> supervisor",
           "    reasoning --> supervisor",
           "    action --> supervisor",
           "    synthesize --> END_NODE((End))",
           "",
           "    style supervisor fill:#9C27B0,color:#fff",
           "    style research fill:#4CAF50,color:#fff",
           "    style reasoning fill:#FF9800,color:#fff",
           "    style action fill:#2196F3,color:#fff",
           "    style synthesize fill:#E91E63,color:#fff",
           "    style START fill:#607D8B,color:#fff",
           "    style END_NODE fill:#f44336,color:#fff" >>
    [] agent_type = "recursive" ->
         <<"graph TD",
           "    START((Start)) --> answer[Answer Node<br/>Generate Answer]",
           "    answer --> evaluate[Evaluate Node<br/>Quality Assessment]",
           "    evaluate -->|refine| refine[Refine Node<br/>Query Optimization]",
           "    evaluate -->|end| END_NODE((End))",
           "    refine --> answer",
           "",
           "    style answer fill:#4CAF50,color:#fff",
           "    style evaluate fill:#FF9800,color:#fff",
           "    style refine fill:#2196F3,color:#fff",
           "    style START fill:#9C27B0,color:#fff",
           "    style END_NODE fill:#f44336,color:#fff" >>

\* GraphVisualizer.get_mermaid
get_mermaid(agent_type) ==
  IF agent_type \notin AGENT_SERVICES
    THEN ValueError(agent_type)
    ELSE Returned(get_mermaid_definition(agent_type))

\* the literal `graphs` of get_graph_json
graphs ==
  [react |->
     [nodes |-> <<
        [id |-> "start", label |-> "Start", type |-> "start"],
        [id |-> "react_node", label |-> "React Node", type |-> "process", description |-> "Contact lookup with adaptive reasoning"],
        [id |-> "contact_node", label |-> "Contact Node", type |-> "process", description |-> "LLM-based disambiguation"],
        [id |-> "email_node", label |-> "Email Node", type |-> "process", description |-> "LLM email generation"],
        [id |-> "end", label |-> "End", type |-> "end"] >>,
      edges |-> <<
        [from |-> "start", to |-> "react_node", label |-> ""],
        [from |-> "react_node", to |-> "email_node", label |-> "approve", condition |-> TRUE],
        [from |-> "react_node", to |-> "contact_node", label |-> "fail", condition |-> TRUE],
        [from |-> "react_node", to |-> "end", label |-> "END", condition |-> TRUE],
        [from |-> "contact_node", to |-> "react_node", label |-> "retry"],
        [from |-> "email_node", to |-> "end", label |-> ""] >>],
   rigid |->
     [nodes |-> <<
        [id |-> "start", label |-> "Start", type |-> "start"],
        [id |-> "planner", label |-> "Planner", type |-> "process", description |-> "Fixed plan generation"],
        [id |-> "contacts", label |-> "Contacts", type |-> "process", description |-> "Database lookup"],
        [id |-> "email", label |-> "Email", type |-> "process", description |-> "Send email"],
        [id |-> "end", label |-> "End", type |-> "end"] >>,
      edges |-> <<
        [from |-> "start", to |-> "planner", label |-> ""],
        [from |-> "planner", to |-> "contacts", label |-> ""],
        [from |-> "contacts", to |-> "email", label |-> ""],
        [from |-> "email", to |-> "end", label |-> ""] >>],
   multi |->
     [nodes |-> <<
        [id |-> "start", label |-> "Start", type |-> "start"],
        [id |-> "supervisor", label |-> "Supervisor", type |-> "process", description |-> "Workflow orchestrator"],
        [id |-> "research", label |-> "Research Agent", type |-> "agent", description |-> "Information gathering"],
        [id |-> "reasoning", label |-> "Reasoning Agent", type |-> "agent", description |-> "Analysis & synthesis"],
        [id |-> "action", label |-> "Action Agent", type |-> "agent", description |-> "Task execution"],
        [id |-> "synthesize", label |-> "Synthesizer", type |-> "process", description |-> "Final output"],
        [id |-> "end", label |-> "End", type |-> "end"] >>,
      edges |-> <<
        [from |-> "start", to |-> "supervisor", label |-> ""],
        [from |-> "supervisor", to |-> "research", label |-> "research", condition |-> TRUE],
        [from |-> "supervisor", to |-> "reasoning", label |-> "reasoning", condition |-> TRUE],
        [from |-> "supervisor", to |-> "action", label |-> "action", condition |-> TRUE],
        [from |-> "supervisor", to |-> "synthesize", label |-> "synthesize", condition |-> TRUE],
        [from |-> "research", to |-> "supervisor", label |-> ""],
        [from |-> "reasoning", to |-> "supervisor", label |-> ""],
        [from |-> "action", to |-> "supervisor", label |-> ""],
        [from |-> "synthesize", to |-> "end", label |-> ""] >>],
   recursive |->
     [nodes |-> <<
        [id |-> "start", label |-> "Start", type |-> "start"],
        [id |-> "answer", label |-> "Answer Node", type |-> "process", description |-> "Generate answer"],
        [id |-> "evaluate", label |-> "Evaluate Node", type |-> "process", description |-> "Quality assessment"],
        [id |-> "refine", label |-> "Refine Node", type |-> "process", description |-> "Query optimization"],
        [id |-> "end", label |-> "End", type |-> "end"] >>,
      edges |-> <<
        [from |-> "start", to |-> "answer", label |-> ""],
        [from |-> "answer", to |-> "evaluate", label |-> ""],
        [from |-> "evaluate", to |-> "refine", label |-> "refine", condition |-> TRUE],
        [from |-> "evaluate", to |-> "end", label |-> "end", condition |-> TRUE],
        [from |-> "refine", to |-> "answer", label |-> ""] >>] ]

\* get_graph_json answering an unknown identifier with the first graph
get_graph_json_Fallback(agent_type) ==
  IF agent_type \notin DOMAIN graphs
    THEN Returned(graphs["react"])
    ELSE Returned(graphs[agent_type])

\* GraphVisualizer.get_graph_json
get_graph_json(agent_type) ==
  IF agent_type \notin DOMAIN graphs
    THEN ValueError(agent_type)
    ELSE Returned(graphs[agent_type])

\* GraphViewSet.retrieve: the status and the body of the response
retrieve(pk, fmt) ==
  LET data == IF fmt = "mermaid" THEN get_mermaid(pk) ELSE get_graph_json(pk)
  IN  IF data.raised
        THEN [status |-> 400, data |-> [error |-> data.message]]
        ELSE IF fmt = "mermaid"
               THEN [status |-> 200,
                     data |-> [agent_type |-> pk, format |-> "mermaid",
                               diagram |-> data.value]]
               ELSE [status |-> 200,
                     data |-> [agent_type |-> pk, format |-> "json",
                               graph |-> data.value]]

\* requests answered in one behaviour
MaxDescribes == 2

\* a request for the description of a workflow is answered, at any point of a run
Retrieve ==
  /\ Len(described) < MaxDescribes
  /\ \E pk \in AGENT_SERVICES \cup UnknownIds, fmt \in OutputFormats :
       described' = Append(described, [pk |-> pk, output_format |-> fmt,
                                       response |-> retrieve(pk, fmt),
                                       supersteps |-> supersteps])
  /\ UNCHANGED <<a2a_service, a2a_call, channel_up, comparison, parked, contacts, session, state, pc, supersteps, executed,
                 llm_calls, result, exc, agent_steps, ws>>

\* a Rigid session is run while descriptions are requested
InitDescribe ==
  /\ contacts = TwoRunsDirectory
  /\ session \in NewSessions({"rigid"}, {<<"J", "o", "h", "n">>})
  /\ state = None
  /\ pc = "idle"
  /\ supersteps = 0
  /\ executed = <<>>
  /\ llm_calls = <<>>
  /\ result = None
  /\ exc = None
  /\ agent_steps = <<>>
  /\ ws = <<>>
  /\ parked = <<>>
  /\ described = <<>>
  /\ comparison = None
  /\ channel_up = TRUE
  /\ a2a_service = A2AService
  /\ a2a_call = None

NextDescribe ==
  \/ ExecuteAgentBegin
  \/ Planner
  \/ Contacts
  \/ Email
  \/ RunReturn
  \/ ExecuteAgentFinish
  \/ Retrieve

SpecDescribe == InitDescribe /\ [][NextDescribe]_vars

-----------------------------------------------------------------------------
(* The description against the executable graph *)

\* add_edge(START, ...) / set_entry_point of build_graph
EntryPoint ==
  [react |-> "react_node", rigid |-> "planner", multi |-> "supervisor",
   recursive |-> "answer"]

\* the fixed edges of the ReAct build_graph
ReactFixedEdges == [contact_node |-> "react_node", email_node |-> "END"]

\* the fixed edges of the Recursive-Refine build_graph
RecursiveFixedEdges == [answer |-> "evaluate", refine |-> "answer"]

\* the node that carries the conditional edge of build_graph
RouterNode == [react |-> "react_node", multi |-> "supervisor", recursive |-> "evaluate"]

\* add_edge calls of build_graph other than the one from START, as node -> target
FixedEdges ==
  [react |-> ReactFixedEdges, rigid |-> RigidEdges, multi |-> MultiEdges,
   recursive |-> RecursiveFixedEdges]

\* add_conditional_edges calls of build_graph, as label -> target
LabelTables ==
  [react |-> ReactEdges, multi |-> MultiRouterEdges, recursive |-> RecursiveEdges]

\* the executable graph of a workflow: its nodes, its unconditional edges
\* <<from, to>> and its conditional edges <<from, label, to>>
BuiltGraph(agent_type) ==
  [nodes |-> DeclaredNodes(agent_type),
   edges |-> {<<"START", EntryPoint[agent_type]>>}
               \cup {<<n, FixedEdges[agent_type][n]>> : n \in DOMAIN FixedEdges[agent_type]},
   conditional |->
     IF agent_type \in DOMAIN LabelTables
       THEN {<<RouterNode[agent_type], l, LabelTables[agent_type][l]>> :
               l \in DOMAIN LabelTables[agent_type]}
       ELSE {}]

\* start and end of a description stand for the entry and the terminal marker
Marker(id) ==
  CASE id = "start" -> "START"
    [] id = "end" -> "END"
    [] OTHER -> id

\* the graph a description shows: an edge with "condition" is a conditional
\* edge under its label, any other edge is unconditional
DescribedGraph(agent_type) ==
  LET graph == get_graph_json(agent_type).value
      edges == {graph.edges[i] : i \in DOMAIN graph.edges}
      conditional == {e \in edges : Get(e, "condition") = Some(TRUE)}
  IN  [nodes |-> {graph.nodes[i].id : i \in DOMAIN graph.nodes} \ {"start", "end"},
       edges |-> {<<Marker(e.from), Marker(e.to)>> : e \in edges \ conditional},
       conditional |-> {<<e.from, e.label, Marker(e.to)>> : e \in conditional}]

\* the node-to-node transitions a graph allows
Transitions(graph) ==
  graph.edges \cup {<<c[1], c[3]>> : c \in graph.conditional}

-----------------------------------------------------------------------------
(* ReAct: the retry counter and the email step *)

\* the model invocations made by a node so far
ModelCalls(node) ==
  Cardinality({i \in 1..Len(llm_calls) : llm_calls[i].node = node})

\* the model invocations made by a node that returned an answer
AnsweredCalls(node) ==
  Cardinality({i \in 1..Len(llm_calls) :
                 llm_calls[i].node = node /\ ~llm_calls[i].raised})

AttemptsAmong(n) ==
  Cardinality({i \in 1..n : state.step_history[i].node = "contact_node"})

\* the run has come to its end by reaching the terminal marker
RunEnded == pc \in {"END", "returned", "done"} /\ exc = None /\ ~LLMFailed

\* C32: in a ReAct run every lookup of react_node follows at most 4
\* disambiguations, and the record of the 5th disambiguation is followed by
\* nothing but the record of the exceeded limit, so the 5th name is never looked
\* up; email_node runs only with a counter of at most 4; and a run that ends
\* after 5 disambiguations ends with the error MAX_RETRIES_EXCEEDED, without
\* contact and email, and is reported failed.
C32_LimitCheckedBeforeLookup ==
  (IsReact /\ state # None) =>
    /\ \A i \in 1..Len(state.step_history) :
         LET r == state.step_history[i] IN
         /\ (r.node = "react_node" /\ r.action = "contact_lookup") =>
              AttemptsAmong(i - 1) <= MAX_RETRIES - 1
         /\ (r.node = "contact_node" /\ r.attempt = MAX_RETRIES) =>
              /\ i >= Len(state.step_history) - 1
              /\ i < Len(state.step_history) =>
                   state.step_history[i + 1].action = "max_retries_exceeded"
    /\ Count("email_node") > 0 => state.counter <= MAX_RETRIES - 1
    /\ Truthy(state.email_content) => state.counter <= MAX_RETRIES - 1
    /\ (RunEnded /\ state.counter = MAX_RETRIES) =>
         /\ state.error = Some(<<"M", "A", "X", "_", "R", "E", "T", "R", "I", "E", "S", "_", "E", "X", "C", "E", "E", "D", "E", "D", " ", "a", "f", "t", "e", "r", " ", "5", " ", "a", "t", "t", "e", "m", "p", "t", "s">>)
         /\ state.email_content = None
         /\ Count("email_node") = 0
         /\ result # None => Val(result).status = "failed"
         /\ (pc = "done" /\ result # None) => session.status = "failed"

\* the 5th disambiguation named a contact that the directory holds exactly once,
\* and the run failed without looking it up
C32_Witness ==
  /\ IsReact /\ pc = "done" /\ result # None
  /\ state.counter = MAX_RETRIES
  /\ Truthy(state.user_name)
  /\ Len(ReactMatches(_get_contacts_db(contacts), Val(state.user_name))) = 1
  /\ session.status = "failed"
  /\ Len(Lookups) = MAX_RETRIES

-----------------------------------------------------------------------------
(* Recursive-Refine: the order of the nodes *)

\* the i-th node of answer, evaluate, (refine, answer, evaluate)*
CycleNode(i) ==
  CASE i % 3 = 1 -> "answer"
    [] i % 3 = 2 -> "evaluate"
    [] OTHER -> "refine"

\* the run is over: it reached the terminal marker or was cut short
RunOver == pc \in {"END", "returned", "done", "raised"}

\* C33 as stated: in a Recursive-Refine run whose model calls all return, the
\* nodes executed are answer, evaluate and then repetitions of refine, answer,
\* evaluate; refine is about to run only right after an evaluate that left the
\* completion flag false; and once the run is over, every answer has been
\* followed by an evaluate, there is one refine less than answers and the last
\* node executed is evaluate.
C33_NodeSequence ==
  (IsRecursive /\ state # None /\ AllCallsReturned) =>
    /\ \A i \in 1..Len(executed) : executed[i] = CycleNode(i)
    /\ pc = "refine" =>
         /\ executed[Len(executed)] = "evaluate"
         /\ ~state.is_complete
    /\ RunOver =>
         /\ executed # <<>>
         /\ executed[Len(executed)] = "evaluate"
         /\ Count("refine") = Count("answer") - 1
         /\ Count("evaluate") = Count("answer")

-----------------------------------------------------------------------------
(* ReAct: the email step *)

\* the last lookup react_node has recorded
LastLookup == Lookups[Len(Lookups)]

\* the directory entry of that name, as react_node stores it in details
DirectoryEntry(name) ==
  LET rows == {contacts[i] : i \in {j \in 1..Len(contacts) :
                                     contacts[j].is_active /\ contacts[j].name = name}}
      r == CHOOSE row \in rows : TRUE
  IN  [name |-> name, email |-> r.email, department |-> r.department, role |-> r.role]

\* C34: in a ReAct run email_node is entered at most once, right after a
\* react_node step and as the last node of the run; when it is entered and from
\* then on, details is set and is the directory entry of the one name that the
\* last lookup of react_node matched, that lookup being the last record before
\* the record of email_node, which names the address of that entry.
C34_EmailNodeHasTheContact ==
  (IsReact /\ state # None) =>
    /\ Count("email_node") <= 1
    /\ \A i \in 1..Len(executed) :
         executed[i] = "email_node" =>
           /\ i = Len(executed)
           /\ i > 1 /\ executed[i - 1] = "react_node"
    /\ Count("email_node") = 1 => pc \in {"END", "returned", "done", "raised"}
    /\ (pc = "email_node" \/ Count("email_node") = 1) =>
         /\ state.details # None
         /\ Lookups # <<>>
         /\ Len(LastLookup.matches) = 1
         /\ Val(state.details) = DirectoryEntry(LastLookup.matches[1])
         /\ LET n == Len(state.step_history)
                k == IF state.step_history[n].node = "email_node" THEN n - 1 ELSE n
            IN  /\ k >= 1
                /\ state.step_history[k] = LastLookup
                /\ k < n => state.step_history[n].to = Val(state.details).email

\* after one disambiguation the lookup matched one contact and email_node wrote
\* to that contact
C34_Witness ==
  /\ IsReact /\ pc = "done" /\ result # None
  /\ executed = <<"react_node", "contact_node", "react_node", "email_node">>
  /\ Val(state.details).name = <<"J", "o", "h", "n", " ", "S", "m", "i", "t", "h">>
  /\ Len(contacts) >= 2
  /\ contacts[1].name # <<"J", "o", "h", "n", " ", "S", "m", "i", "t", "h">>
  /\ session.status = "completed"

-----------------------------------------------------------------------------
(* Multi-Phase: iteration and max_iterations *)

\* values of the parameter max_iterations of MultiAgentOrchestrator.run
MaxIterationsValues == {0, 1, MULTI_MAX_ITERATIONS}

\* MultiAgentOrchestrator.run(query, max_iterations) up to graph.invoke
MultiRunBegin ==
  /\ pc = "idle"
  /\ session.agent_type = "multi"
  /\ \E max_iterations \in MaxIterationsValues :
       state' = MultiInitialState(session.user_message, max_iterations)
  /\ pc' = "supervisor"
  /\ UNCHANGED <<a2a_service, a2a_call, channel_up, comparison, described, parked, contacts, session, supersteps, executed, llm_calls,
                 result, exc, agent_steps, ws>>

InitMulti ==
  /\ contacts = <<>>
  /\ session \in NewSessions({"multi"}, {<<>>})
  /\ state = None
  /\ pc = "idle"
  /\ supersteps = 0
  /\ executed = <<>>
  /\ llm_calls = <<>>
  /\ result = None
  /\ exc = None
  /\ agent_steps = <<>>
  /\ ws = <<>>
  /\ parked = <<>>
  /\ described = <<>>
  /\ comparison = None
  /\ channel_up = TRUE
  /\ a2a_service = A2AService
  /\ a2a_call = None

NextMulti ==
  \/ MultiRunBegin
  \/ Supervisor
  \/ Research
  \/ Reasoning
  \/ Action
  \/ Synthesize
  \/ RunReturn

SpecMulti == InitMulti /\ [][NextMulti]_vars

\* the partial updates a node of the Multi-Phase graph may return in state st
MultiUpdates(node, st) ==
  CASE node = "supervisor" -> {_supervisor_node(st)}
    [] node = "research" -> {_research_node(st, r) : r \in LLMTexts}
    [] node = "reasoning" -> {_reasoning_node(st, r) : r \in LLMTexts}
    [] node = "action" -> {_action_node(st, r) : r \in LLMTexts}
    [] node = "synthesize" -> {_synthesize_node(st, r) : r \in LLMTexts}

\* the node the engine goes to after node has left the state st
MultiNextNode(node, st) ==
  IF node = "supervisor"
    THEN RouteLabel(MultiRouterEdges, _route_from_supervisor(st))
    ELSE MultiEdges[node]

\* C35: in a Multi-Phase run started with any max_iterations the field iteration
\* is 0 in every state and max_iterations keeps its initial value; and every step
\* of a node is the step the same node takes from the state that differs only in
\* max_iterations: the same update, hence the same next node, so the sequence of
\* nodes executed does not depend on max_iterations.
C35_MaxIterationsUnread ==
  [][ (session.agent_type = "multi" /\ state # None) =>
        /\ state.iteration = 0
        /\ state'.iteration = 0
        /\ state'.max_iterations = state.max_iterations
        /\ NodeReturned =>
             \A m \in MaxIterationsValues :
               LET other == [state EXCEPT !.max_iterations = m]
               IN  \E update \in MultiUpdates(pc, other) :
                     /\ Merge(other, update) = [state' EXCEPT !.max_iterations = m]
                     /\ MultiNextNode(pc, Merge(other, update)) = pc' ]_vars

\* a run started with max_iterations = 0 has gone through all four phases
C35_Witness ==
  /\ session.agent_type = "multi" /\ pc = "returned" /\ result # None
  /\ state.max_iterations = 0
  /\ Count("supervisor") = 4
  /\ Val(result).status = "completed"

-----------------------------------------------------------------------------
(* The comparison of ReAct and Rigid: _execute_comparison *)

\* AgentSession.objects.create(agent_type=..., status=PENDING, user_message=message,
\* user_name_target=user_name)
CreateSession(agent_type, message, user_name) ==
  [agent_type |-> agent_type, status |-> "pending", user_message |-> message,
   user_name_target |-> user_name, final_result |-> None, error_message |-> <<>>,
   retry_count |-> 0, execution_time_ms |-> None, graph_definition |-> None]

\* the target names of the comparisons
ComparisonNames == {<<>>, <<"J", "o", "h", "n">>, <<"D", "o", "e">>, <<"R", "o", "e">>}

\* `x or 0` for an Optional[int]
OrZero(o) == IF o = None THEN 0 ELSE Val(o)

\* faulty variant: ReAct wins only when it was strictly faster
Winner_StrictlyFaster(react_session, rigid_session) ==
  LET react_ok == react_session.status = "completed"
      rigid_ok == rigid_session.status = "completed"
  IN  IF react_ok /\ ~rigid_ok THEN "react"
      ELSE IF rigid_ok /\ ~react_ok THEN "rigid"
      ELSE IF react_ok /\ rigid_ok
        THEN LET react_time == OrZero(react_session.execution_time_ms)
                 rigid_time == OrZero(rigid_session.execution_time_ms)
             IN  IF react_time < rigid_time THEN "react" ELSE "rigid"
      ELSE "none"

\* the if/elif chain of _execute_comparison that determines the winner
Winner(react_session, rigid_session) ==
  LET react_ok == react_session.status = "completed"
      rigid_ok == rigid_session.status = "completed"
  IN  IF react_ok /\ ~rigid_ok THEN "react"
      ELSE IF rigid_ok /\ ~react_ok THEN "rigid"
      ELSE IF react_ok /\ rigid_ok
        THEN LET react_time == OrZero(react_session.execution_time_ms)
                 rigid_time == OrZero(rigid_session.execution_time_ms)
             IN  IF react_time <= rigid_time THEN "react" ELSE "rigid"
      ELSE "none"

\* _execute_comparison has created the ReAct session and is about to run it
InitComparison ==
  /\ contacts \in Directories
  /\ \E message \in Messages, user_name \in ComparisonNames :
       session = CreateSession("react", message, user_name)
  /\ comparison = Some([react_session |-> None, rigid_session |-> None, row |-> None])
  /\ channel_up = TRUE
  /\ a2a_service = A2AService
  /\ a2a_call = None
  /\ state = None
  /\ pc = "idle"
  /\ supersteps = 0
  /\ executed = <<>>
  /\ llm_calls = <<>>
  /\ result = None
  /\ exc = None
  /\ agent_steps = <<>>
  /\ ws = <<>>
  /\ parked = <<>>
  /\ described = <<>>

\* _execute_agent has returned for the ReAct session: its row is read back, the
\* Rigid session is created and _execute_agent is about to run it
ComparisonRunRigid ==
  /\ comparison # None
  /\ pc = "done"
  /\ session.agent_type = "react"
  /\ Val(comparison).react_session = None
  /\ comparison' = Some([Val(comparison) EXCEPT !.react_session = Some(session)])
  /\ session' = CreateSession("rigid", session.user_message, session.user_name_target)
  /\ state' = None
  /\ pc' = "idle"
  /\ supersteps' = 0
  /\ executed' = <<>>
  /\ llm_calls' = <<>>
  /\ result' = None
  /\ exc' = None
  /\ agent_steps' = <<>>
  /\ ws' = <<>>
  /\ UNCHANGED <<contacts, parked, described, channel_up, a2a_service, a2a_call>>

\* _execute_agent has returned for the Rigid session: its row is read back, the
\* winner is determined and the AgentComparison row is created
ComparisonFinish ==
  /\ comparison # None
  /\ pc = "done"
  /\ session.agent_type = "rigid"
  /\ Val(comparison).react_session # None
  /\ Val(comparison).row = None
  /\ comparison' =
       Some([Val(comparison) EXCEPT
               !.rigid_session = Some(session),
               !.row = Some([query |-> session.user_message,
                             winner |-> Winner(Val(Val(comparison).react_session),
                                               session)])])
  /\ UNCHANGED <<contacts, session, state, pc, supersteps, executed, llm_calls, result,
                 exc, agent_steps, ws, parked, described, channel_up, a2a_service,
                 a2a_call>>

NextComparison ==
  \/ ExecuteAgentBegin
  \/ ReactNode
  \/ ContactNode
  \/ EmailNode
  \/ Planner
  \/ Contacts
  \/ Email
  \/ RunReturn
  \/ ExecuteAgentFinish
  \/ ExecuteAgentExcept
  \/ ComparisonRunRigid
  \/ ComparisonFinish

SpecComparison == InitComparison /\ [][NextComparison]_vars

FinalStatus == {"completed", "failed"}

\* C36: while _execute_comparison runs the ReAct session no Rigid session
\* exists; when the Rigid session exists the ReAct session has its final status,
\* completed or failed, which no longer changes; and the AgentComparison row has
\* as winner: react if ReAct completed and Rigid did not, or both completed and
\* ReAct's execution time is at most Rigid's; rigid if Rigid completed and ReAct
\* did not, or both completed and Rigid's time is the smaller one; none exactly
\* if neither completed, that is if both failed.
C36_ComparisonWinner ==
  comparison # None =>
    LET c == Val(comparison) IN
    /\ session.agent_type = "react" => (c.react_session = None /\ c.rigid_session = None)
    /\ session.agent_type = "rigid" =>
         /\ c.react_session # None
         /\ Val(c.react_session).agent_type = "react"
         /\ Val(c.react_session).status \in FinalStatus
         /\ Val(c.react_session).user_message = session.user_message
         /\ Val(c.react_session).user_name_target = session.user_name_target
    /\ c.row # None =>
         LET react == Val(c.react_session)
             rigid == Val(c.rigid_session)
             react_ok == react.status = "completed"
             rigid_ok == rigid.status = "completed"
             winner == Val(c.row).winner
         IN  /\ rigid.agent_type = "rigid"
             /\ rigid.status \in FinalStatus
             /\ react_ok => react.execution_time_ms # None
             /\ rigid_ok => rigid.execution_time_ms # None
             /\ winner \in {"react", "rigid", "none"}
             /\ winner = "none" <=> (react.status = "failed" /\ rigid.status = "failed")
             /\ winner = "react" <=>
                  (react_ok /\ (rigid_ok =>
                     Val(react.execution_time_ms) <= Val(rigid.execution_time_ms)))
             /\ winner = "rigid" <=>
                  (rigid_ok /\ (react_ok =>
                     Val(rigid.execution_time_ms) < Val(react.execution_time_ms)))

\* both sessions completed in the same number of milliseconds, ReAct after a
\* disambiguation, and ReAct is the winner
C36_Witness ==
  /\ comparison # None
  /\ Val(comparison).row # None
  /\ Val(Val(comparison).react_session).status = "completed"
  /\ Val(Val(comparison).react_session).retry_count = 1
  /\ Val(Val(comparison).rigid_session).status = "completed"
  /\ Val(Val(comparison).react_session).execution_time_ms = Some(1)
  /\ Val(Val(comparison).rigid_session).execution_time_ms = Some(1)
  /\ Val(Val(comparison).row).winner = "react"

-----------------------------------------------------------------------------
(* The updates sent over the websocket *)

\* calls of _execute_agent and _execute_recursive_qa with a channel layer that
\* accepts the updates or refuses them
InitUpdates ==
  /\ \/ /\ contacts = TwoRunsDirectory
        /\ session \in NewSessions({"react", "rigid"}, {<<"J", "o", "h", "n">>, <<"D", "o", "e">>})
     \/ /\ contacts = <<>>
        /\ session \in NewSessions({"multi", "recursive"}, {<<>>})
  /\ channel_up \in BOOLEAN
  /\ a2a_service = A2AService
  /\ a2a_call = None
  /\ state = None
  /\ pc = "idle"
  /\ supersteps = 0
  /\ executed = <<>>
  /\ llm_calls = <<>>
  /\ result = None
  /\ exc = None
  /\ agent_steps = <<>>
  /\ ws = <<>>
  /\ parked = <<>>
  /\ described = <<>>
  /\ comparison = None

SpecUpdates == InitUpdates /\ [][Next]_vars

\* the status the outcome of the workflow gives the session: that of the result
\* when run() returned (always completed for Recursive-Refine), failed when it raised
OutcomeStatus ==
  IF result = None THEN "failed"
  ELSE IF session.agent_type = "recursive" THEN "completed"
  ELSE IF Val(result).status = "completed" THEN "completed" ELSE "failed"

\* C37: a call of _execute_agent or _execute_recursive_qa has handed no update
\* to _send_ws_update before it starts, exactly one, with status running, while
\* the workflow runs, and exactly two once it is over: the running update and
\* then one update with status completed or failed, the status of the session;
\* that status is the one the outcome of the workflow gives, whether the channel
\* layer accepted the updates or refused them.
C37_RunningThenTerminalUpdate ==
  /\ pc = "idle" => ws = <<>>
  /\ pc \notin {"idle", "done"} =>
       /\ Len(ws) = 1
       /\ ws[1].status = "running"
       /\ session.status = "running"
  /\ pc = "done" =>
       /\ Len(ws) = 2
       /\ ws[1].status = "running"
       /\ ws[2].status \in FinalStatus
       /\ ws[2].status = session.status
       /\ session.status = OutcomeStatus
       /\ (result = None) = (exc # None)

\* a workflow has completed although the channel layer refused both updates
C37_Witness ==
  /\ ~channel_up
  /\ pc = "done"
  /\ result # None
  /\ session.status = "completed"
  /\ Len(ws) = 2

-----------------------------------------------------------------------------
(* The agent-to-agent service: calls of its methods *)

\* messages logged in one behaviour
MaxMessages == 3

Senders == {"client"}

\* receivers of send_message: a registered agent and one that is never registered
Receivers == {"recursive-qa", "unknown-agent"}

\* task types: capabilities of default agents and one that no default agent has
TaskTypes == {"qa", "contact_lookup", "translate"}

Payloads == {[text |-> "hi"]}

\* cards registered later: a new agent, and a default agent with other capabilities
NewCards ==
  {[agent_id |-> "translator", capabilities |-> <<"translate">>,
    url |-> "/api/translate/"],
   [agent_id |-> "react-agent", capabilities |-> <<"disambiguation">>,
    url |-> "/api/agents/sessions/run-sync/"]}

\* the limits get_message_log is called with
Limits == 0..(MaxMessages + 1)

A2AIdle ==
  UNCHANGED <<contacts, session, state, pc, supersteps, executed, llm_calls, result,
              exc, agent_steps, ws, parked, described, comparison, channel_up>>

RegisterAgent ==
  /\ \E card \in NewCards :
       /\ a2a_service' = register_agent(a2a_service, card)
       /\ a2a_call' = Some([op |-> "register_agent", card |-> card])
  /\ A2AIdle

DiscoverAgents ==
  /\ \E capability \in {None, Some(""), Some("qa"), Some("translate")} :
       a2a_call' = Some([op |-> "discover_agents", capability |-> capability,
                         outcome |-> [raised |-> FALSE,
                                      value |-> discover_agents(a2a_service, capability)]])
  /\ UNCHANGED a2a_service
  /\ A2AIdle

SendMessage ==
  /\ Len(a2a_service.message_log) < MaxMessages
  /\ \E sender \in Senders, receiver \in Receivers, task_type \in TaskTypes,
        payload \in Payloads :
       LET call == send_message(a2a_service, sender, receiver, task_type, payload)
       IN  /\ a2a_service' = call.svc
           /\ a2a_call' = Some([op |-> "send_message", sender |-> sender,
                                receiver |-> receiver, task_type |-> task_type,
                                payload |-> payload, outcome |-> call.outcome])
  /\ A2AIdle

DelegateTask ==
  /\ Len(a2a_service.message_log) < MaxMessages
  /\ \E task_type \in TaskTypes, payload \in Payloads :
       LET call == delegate_task(a2a_service, task_type, payload)
       IN  /\ a2a_service' = call.svc
           /\ a2a_call' = Some([op |-> "delegate_task", task_type |-> task_type,
                                payload |-> payload, outcome |-> call.outcome])
  /\ A2AIdle

GetMessageLog ==
  /\ \E limit \in Limits :
       a2a_call' = Some([op |-> "get_message_log", limit |-> limit,
                         outcome |-> [raised |-> FALSE,
                                      value |-> get_message_log(a2a_service, limit)]])
  /\ UNCHANGED a2a_service
  /\ A2AIdle

\* the module has been imported: the singleton exists, no session is run
InitA2A ==
  /\ contacts = <<>>
  /\ session = CreateSession("react", <<"M", "a", "i", "l", " ", "J", "o", "h", "n">>, <<>>)
  /\ state = None
  /\ pc = "idle"
  /\ supersteps = 0
  /\ executed = <<>>
  /\ llm_calls = <<>>
  /\ result = None
  /\ exc = None
  /\ agent_steps = <<>>
  /\ ws = <<>>
  /\ parked = <<>>
  /\ described = <<>>
  /\ comparison = None
  /\ channel_up = TRUE
  /\ a2a_service = A2AService
  /\ a2a_call = None

NextA2A ==
  \/ RegisterAgent
  \/ DiscoverAgents
  \/ SendMessage
  \/ DelegateTask
  \/ GetMessageLog

SpecA2A == InitA2A /\ [][NextA2A]_vars

\* the agents that have a capability, in the order of the dict
AgentsWith(svc, capability) ==
  SelectSeq(svc.agents,
            LAMBDA card : \E k \in 1..Len(card.capabilities) :
                             card.capabilities[k] = capability)

Registered(svc, id) == \E i \in 1..Len(svc.agents) : svc.agents[i].agent_id = id

\* C38: no call of a method of the service changes or removes a logged message
\* or changes the order of the log; send_message to a receiver that is not
\* registered raises and leaves the log as it was; send_message to a registered
\* receiver returns and appends exactly one entry, the message sent;
\* delegate_task for a capability some agent has appends exactly one entry, the
\* message to the first such agent, and for a capability no agent has it
\* returns an error value and appends nothing; the other methods append nothing.
C38_MessageLogAppendOnly ==
  [][ LET before == a2a_service.message_log
          after == a2a_service'.message_log
          call == Val(a2a_call')
          last == after[Len(after)]
      IN  /\ IsPrefix(before, after)
          /\ call.op = "send_message" =>
               IF Registered(a2a_service, call.receiver)
                 THEN /\ ~call.outcome.raised
                      /\ after = Append(before, call.outcome.value)
                      /\ last.sender = call.sender
                      /\ last.receiver = call.receiver
                      /\ last.task_type = call.task_type
                 ELSE /\ call.outcome.raised
                      /\ after = before
          /\ call.op = "delegate_task" =>
               /\ ~call.outcome.raised
               /\ IF AgentsWith(a2a_service, call.task_type) # <<>>
                    THEN /\ Len(after) = Len(before) + 1
                         /\ last.sender = "supervisor"
                         /\ last.receiver = AgentsWith(a2a_service, call.task_type)[1].agent_id
                         /\ last.task_type = call.task_type
                         /\ call.outcome.value.delegated_to = last.receiver
                         /\ call.outcome.value.message_id = last.id
                    ELSE /\ DOMAIN call.outcome.value = {"error"}
                         /\ after = before
          /\ call.op \in {"register_agent", "discover_agents", "get_message_log"} =>
               after = before ]_vars

\* after two messages were logged, a message to an agent that is not registered
\* was refused
C38_Witness ==
  /\ a2a_call # None
  /\ Val(a2a_call).op = "send_message"
  /\ Val(a2a_call).receiver = "unknown-agent"
  /\ Val(a2a_call).outcome.raised
  /\ Len(a2a_service.message_log) = 2
  /\ a2a_service.message_log[1].sender = "supervisor"
  /\ a2a_service.message_log[2].sender = "client"

\* C39 as stated: get_message_log(limit) with limit >= 0 returns the last
\* min(limit, n) of the n logged messages, in the order of the log, and never
\* more than limit entries.
C39_MostRecentMessages ==
  (a2a_call # None /\ Val(a2a_call).op = "get_message_log") =>
    LET limit == Val(a2a_call).limit
        log == a2a_service.message_log
        n == Len(log)
        k == IF limit < n THEN limit ELSE n
        returned == Val(a2a_call).outcome.value
    IN  /\ Len(returned) <= limit
        /\ returned = SubSeq(log, n - k + 1, n)
=============================================================================
